---------------------------- MODULE Spec2Model ----------------------------
(***************************************************************************)
(* Model of bt-obd-gw: the Bluetooth SPP transport (src/src/spp_handler.rs) *)
(* and the ELM327 command/response engine (src/src/elm327.rs).              *)
(*                                                                         *)
(* Two execution contexts share the buffers: the protocol thread (write,    *)
(* flush, read, read_response) and the radio stack's callback context       *)
(* (handle_spp).  Every critical section of a buffer mutex is one step;     *)
(* the atomic handle is read and written in steps of its own.               *)
(***************************************************************************)
EXTENDS Integers, Sequences, FiniteSets, TLC

VARIABLES
    \* ---- outbound side (SppHandler.write_buf, SppHandler.handle) ----
    write_buf,      \* content of the outbound CircularBuffer, front first
    handle,         \* the AtomicU32 link handle, 0 when unlinked
    wpc,            \* position of the protocol thread inside write / write_elm_request
    wop,            \* the call in progress: "none", "write" or "elm"
    warg,           \* the byte slice the call was given
    wh,             \* the handle value flush() loaded
    wret,           \* result of the last finished call
    dpc,            \* position of the dispatcher inside an Open event
    dh,             \* handle carried by the Open event being processed
    olast,          \* history: the step taken last on the outbound side
    ncalls,         \* history: calls started by the protocol thread
    nevents,        \* history: link events delivered to the dispatcher
    inflight        \* history: how many bytes at the front of write_buf were handed
                    \* to the link by a transmit and not reported on since

outVars == <<write_buf, handle, wpc, wop, warg, wh, wret, dpc, dh, olast, ncalls, nevents,
             inflight>>

VARIABLES
    \* ---- inbound side (SppHandler.read_buf: DataBuffer, Mutex, Condvar) ----
    rdata,          \* DataBuffer.data, front first
    available,      \* DataBuffer.available
    rlock,          \* holder of the read_buf mutex: "free", "reader", "disp"
    notified,       \* notify_all reached the reader parked in the Condvar
    rpc,            \* position of the protocol thread inside read
    rbuflen,        \* length of the destination slice of the read in progress
    rret,           \* what the last finished read returned, and from which queue
    rparked,        \* history: the read in progress (or last finished) parked
    dipc,           \* position of the dispatcher inside a DataInd event
    \* ---- Elm327::read_response ----
    epc,            \* position inside read_response
    loop_count,     \* its loop counter
    response,       \* its accumulator
    eret,           \* result of the last finished read_response
    chunks,         \* history: the chunks read gave to this read_response
    \* ---- the adapter ----
    stream,         \* the bytes the adapter sends, in order
    sent,           \* how many of them data-arrival events have delivered
    consumed,       \* history: concatenation of everything read returned
    overflowed,     \* history: some arrival exceeded the remaining capacity
    nzero,          \* history: data-arrival events that carried no byte
    nin             \* history: read / read_response calls started

inVars == <<rdata, available, rlock, notified, rpc, rbuflen, rret, rparked, dipc,
            epc, loop_count, response, eret, chunks,
            stream, sent, consumed, overflowed, nzero, nin>>

VARIABLES
    \* ---- main and the discovery-failure policy of handle_spp ----
    nvs,            \* the persisted dsc_fail_cnt entry, Absent when never written
    bpc,            \* position of main
    sidx,           \* setup: index of the command of the round trip in progress
    written,        \* history: the commands setup passed to write_request, this boot
    nresp,          \* history: read_response calls of setup that returned Ok, this boot
    sres,           \* history: how setup ended in this boot, and at which command
    disc,           \* the discovery started by main: "none", "pending", "found",
                    \* "failing" (the failure is being handled), "failed"
    led,            \* the pattern sent last to the indicator
    breset,         \* history: main wrote 0 to the counter in this boot
    glast,          \* history: what the last discovery failure did to the counter
    fails,          \* history: discovery failures since the counter was last absent or 0
    restarts,       \* history: restarts forced by them
    ncycles         \* history: power cycles

bootVars == <<nvs, bpc, sidx, written, nresp, sres, disc, led, breset, glast, fails,
              restarts, ncycles>>

VARIABLES
    \* ---- the /post handler of main ----
    ppc,            \* position of the handler
    pbody,          \* the body of the request being handled
    pbuf,           \* the buffer the handler passes to write_request
    presp,          \* the response sent for the last request
    nposts,         \* history: requests handled
    \* ---- the elm327 mutex and the handlers that contend for it ----
    elock,          \* the handler that holds the Mutex around Elm327, 0 when free
    hpc,            \* per handler, its position in the /post closure
    hres            \* history: per handler, how its last request ended

lockVars == <<elock, hpc, hres>>

postVars == <<ppc, pbody, pbuf, presp, nposts, lockVars>>

VARIABLES
    \* ---- the indicator: mpsc::sync_channel(1) and the thread of start_led_blink ----
    ledq,           \* the commands buffered in the channel, oldest first
    apc,            \* position of the indicator thread: "recv", "times", "forever"
    lsend           \* per execution context, the command its send is blocked with

ledVars == <<ledq, apc, lsend>>

appVars == <<bootVars, postVars, ledVars>>

vars == <<outVars, inVars, appVars>>

----------------------------------------------------------------------------
(* Program constants *)

WRITE_BUF_SIZE == 250
READ_BUF_SIZE == 500

(* Bounds of the model *)

MaxCalls == 2
MaxEvents == 2

(* Inputs the model draws from *)

WriteLens == {0, 1, 250, 251}
ReqLens == {0, 2, 250, 251}
AckLens == {0, 1, 250, 251}
Handles == {7, 9}
AckHandles == {7}

CR == 13

Min(a, b) == IF a < b THEN a ELSE b

\* The k-th call's argument of n bytes: contents differ from call to call and
\* from position to position, so that order and identity are observable.
Payload(n, k) == [i \in 1..n |-> (i + 37 * k) % 256]

----------------------------------------------------------------------------
(* circular_buffer::CircularBuffer<N, u8> as the handlers use it *)

Last(s, n) == SubSeq(s, Len(s) - n + 1, Len(s))

\* a plain append that never drops the front
ExtendUnbounded(buf, s, N) == buf \o s

\* extend_from_slice: appends; once full, the elements at the front are
\* overwritten, so the buffer keeps the last N bytes of buf \o s.
ExtendFromSlice(buf, s, N) ==
    LET all == buf \o s
    IN  IF Len(all) <= N THEN all ELSE Last(all, N)

\* keeps the front instead of the back
TruncateKeepFront(buf, n) == IF n >= Len(buf) THEN buf ELSE SubSeq(buf, 1, n)

\* truncate_front(n): keeps only the back n elements; no effect when n >= len
TruncateFront(buf, n) == IF n >= Len(buf) THEN buf ELSE Last(buf, n)

\* how many of the n bytes at the front of buf are still queued after
\* extend_from_slice(s): an append past the capacity overwrites the front
StillQueued(n, buf, s, N) ==
    LET dropped == Len(buf) + Len(s) - Len(ExtendFromSlice(buf, s, N))
    IN  IF n > dropped THEN n - dropped ELSE 0

----------------------------------------------------------------------------
(* history records *)

NoTx == << >>
Tx(h, data, ok) == [h |-> h, data |-> data, ok |-> ok]

Step(act, pre, arg, d, status, cong, txs) ==
    [act |-> act, pre |-> pre, arg |-> arg, d |-> d, status |-> status,
     cong |-> cong, txs |-> txs]

RetNone == [kind |-> "none", n |-> 0, err |-> ""]
RetOk(n) == [kind |-> "ok", n |-> n, err |-> ""]
RetErr(e) == [kind |-> "err", n |-> 0, err |-> e]
----------------------------------------------------------------------------
(* Protocol thread: SppHandler::write, flush, write_elm_request *)

\* a size check that lets everything through
NeverTooLarge(buf) == FALSE

\* extend_write_buf's guard: the slice alone is larger than the buffer
TooLarge(buf) == Len(buf) > WRITE_BUF_SIZE

\* hands back the queue length instead of the slice length
CallOkQueueLen == IF wop = "write" THEN RetOk(Len(write_buf)) ELSE RetOk(0)

\* the value the finished call hands back to its caller: write gives
\* Ok(buf.len()), write_elm_request gives Ok(())
CallOk == IF wop = "write" THEN RetOk(Len(warg)) ELSE RetOk(0)

InitOut ==
    /\ write_buf = << >>
    /\ handle = 0
    /\ wpc = "idle"
    /\ wop = "none"
    /\ warg = << >>
    /\ wh = 0
    /\ wret = RetNone
    /\ dpc = "idle"
    /\ dh = 0
    /\ olast = Step("init", << >>, << >>, 0, TRUE, FALSE, NoTx)
    /\ ncalls = 0
    /\ nevents = 0
    /\ inflight = 0

\* write(buf), up to the end of extend_write_buf
WriteExtend(buf) ==
    /\ wpc = "idle"
    /\ ncalls < MaxCalls
    /\ ncalls' = ncalls + 1
    /\ warg' = buf
    /\ wop' = "write"
    /\ IF TooLarge(buf)
       THEN /\ wret' = RetErr("Other:InvalidInput")
            /\ wpc' = "idle"
            /\ write_buf' = write_buf
            /\ olast' = Step("write_reject", write_buf, buf, 0, TRUE, FALSE, NoTx)
       ELSE /\ write_buf' = ExtendFromSlice(write_buf, buf, WRITE_BUF_SIZE)
            /\ wpc' = "flush"
            /\ wret' = RetNone
            /\ olast' = Step("write_extend", write_buf, buf, 0, TRUE, FALSE, NoTx)
    /\ inflight' = (IF TooLarge(buf) THEN inflight
                    ELSE StillQueued(inflight, write_buf, buf, WRITE_BUF_SIZE))
    /\ UNCHANGED <<handle, wh, dpc, dh, nevents>>
    /\ UNCHANGED inVars
    /\ UNCHANGED appVars

\* write_elm_request(request), up to the end of its extend_write_buf, as
\* every caller runs it
ElmRequestBegin(request) ==
    /\ wpc = "idle"
    /\ warg' = request
    /\ wop' = "elm"
    /\ IF TooLarge(request)
       THEN /\ wret' = RetErr("InvalidInput")
            /\ wpc' = "idle"
            /\ write_buf' = write_buf
            /\ olast' = Step("elm_reject", write_buf, request, 0, TRUE, FALSE, NoTx)
       ELSE /\ write_buf' = ExtendFromSlice(write_buf, request, WRITE_BUF_SIZE)
            /\ wpc' = "elm_cr"
            /\ wret' = RetNone
            /\ olast' = Step("elm_extend", write_buf, request, 0, TRUE, FALSE, NoTx)
    /\ inflight' = (IF TooLarge(request) THEN inflight
                    ELSE StillQueued(inflight, write_buf, request, WRITE_BUF_SIZE))
    /\ UNCHANGED <<handle, wh, dpc, dh, nevents>>

\* write_elm_request called with an arbitrary request
ElmExtend(request) ==
    /\ ncalls < MaxCalls
    /\ ncalls' = ncalls + 1
    /\ ElmRequestBegin(request)
    /\ UNCHANGED inVars
    /\ UNCHANGED appVars

\* write_elm_request: write_all(b"\r") enters write, whose extend_write_buf
\* appends the one terminator byte
ElmCr ==
    /\ wpc = "elm_cr"
    /\ write_buf' = ExtendFromSlice(write_buf, <<CR>>, WRITE_BUF_SIZE)
    /\ wpc' = "flush"
    /\ olast' = Step("elm_cr", write_buf, <<CR>>, 0, TRUE, FALSE, NoTx)
    /\ inflight' = StillQueued(inflight, write_buf, <<CR>>, WRITE_BUF_SIZE)
    /\ UNCHANGED <<handle, wop, warg, wh, wret, dpc, dh, ncalls, nevents>>
    /\ UNCHANGED inVars
    /\ UNCHANGED appVars

\* transmits whatever the handle is
LinkedAlways(h) == TRUE

\* flush's test of the handle it loaded: if handle > 0
Linked(h) == h > 0

\* flush: the atomic load of the handle; with no link the call returns at once
FlushLoad ==
    /\ wpc = "flush"
    /\ IF Linked(handle)
       THEN /\ wh' = handle
            /\ wpc' = "tx"
            /\ wret' = wret
            /\ olast' = Step("flush_load", write_buf, warg, 0, TRUE, FALSE, NoTx)
       ELSE /\ wh' = 0
            /\ wpc' = "idle"
            /\ wret' = CallOk
            /\ olast' = Step("flush_skip", write_buf, warg, 0, TRUE, FALSE, NoTx)
    /\ UNCHANGED <<write_buf, handle, wop, warg, dpc, dh, ncalls, nevents, inflight>>
    /\ UNCHANGED inVars
    /\ UNCHANGED appVars

\* a failed transmit that leaves the queue as it is
FlushFailedKept(buf) == buf

\* flush, the Err branch of spp.write: write_buf.clear()
FlushFailed(buf) == << >>

\* flush: under the lock, spp.write of the whole content; a failed transmit
\* clears the buffer and the call fails with ConnectionReset
FlushTx ==
    /\ wpc = "tx"
    /\ \E ok \in BOOLEAN :
          /\ write_buf' = IF ok THEN write_buf ELSE FlushFailed(write_buf)
          /\ wret' = IF ok THEN CallOk ELSE RetErr("ConnectionReset")
          /\ olast' = Step("flush_tx", write_buf, warg, 0, ok, FALSE,
                           <<Tx(wh, write_buf, ok)>>)
          /\ inflight' = IF ok THEN Len(write_buf) ELSE 0
    /\ wpc' = "idle"
    /\ UNCHANGED <<handle, wop, warg, wh, dpc, dh, ncalls, nevents>>
    /\ UNCHANGED inVars
    /\ UNCHANGED appVars

----------------------------------------------------------------------------
(* Dispatcher: handle_spp, the events that touch the outbound side *)

\* SppEvent::Open, the status test and the atomic store of the handle
OpenStore(status, h) ==
    /\ dpc = "idle"
    /\ nevents < MaxEvents
    /\ nevents' = nevents + 1
    /\ IF status
       THEN /\ handle' = h
            /\ dh' = h
            /\ dpc' = "open"
            /\ olast' = Step("open_store", write_buf, << >>, 0, TRUE, FALSE, NoTx)
            /\ inflight' = 0
       ELSE /\ UNCHANGED <<handle, dh, dpc, inflight>>
            /\ olast' = Step("open_fail", write_buf, << >>, 0, FALSE, FALSE, NoTx)
    /\ UNCHANGED <<write_buf, wpc, wop, warg, wh, wret, ncalls>>
    /\ UNCHANGED inVars
    /\ UNCHANGED appVars

\* SppEvent::Open, under the lock: queued bytes are written now
OpenFlush ==
    /\ dpc = "open"
    /\ dpc' = "idle"
    /\ \E ok \in BOOLEAN :
          /\ olast' = Step("open_flush", write_buf, << >>, 0, TRUE, FALSE,
                           IF write_buf # << >>
                           THEN <<Tx(dh, write_buf, ok)>> ELSE NoTx)
          /\ inflight' = IF write_buf # << >> /\ ok THEN Len(write_buf) ELSE inflight
    /\ UNCHANGED <<write_buf, handle, wpc, wop, warg, wh, wret, dh, ncalls, nevents>>
    /\ UNCHANGED inVars
    /\ UNCHANGED appVars

\* the prefix removal of SppEvent::Write: the larger of the reported length
\* and the buffer length is the authority, and the back (that - length) stays
AfterAck(buf, length) ==
    LET write_buf_length == IF length > Len(buf) THEN length ELSE Len(buf)
    IN  TruncateFront(buf, write_buf_length - length)

\* writes again only after an acknowledgment with success status
AckWritesOnSuccess(status, cong, buf) == status /\ ~cong /\ buf # << >>

\* SppEvent::Write, after the status branches: if !cong && !write_buf.is_empty()
AckWrites(status, cong, buf) == ~cong /\ buf # << >>

\* SppEvent::Write, the whole handler (it holds the lock throughout)
WriteAck(status, h, length, cong) ==
    /\ dpc = "idle"
    /\ nevents < MaxEvents
    /\ nevents' = nevents + 1
    /\ LET buf == IF status THEN AfterAck(write_buf, length) ELSE write_buf
       IN  /\ write_buf' = buf
           /\ \E ok \in BOOLEAN :
                 /\ olast' = Step("ack", write_buf, << >>, length, status, cong,
                                  IF AckWrites(status, cong, buf)
                                  THEN <<Tx(h, buf, ok)>> ELSE NoTx)
                 /\ inflight' = IF AckWrites(status, cong, buf) /\ ok
                                 THEN Len(buf) ELSE 0
    /\ UNCHANGED <<handle, wpc, wop, warg, wh, wret, dpc, dh, ncalls>>
    /\ UNCHANGED inVars
    /\ UNCHANGED appVars

\* writes again whether or not the link is congested
CongWritesCongested(status, cong, buf) == status /\ buf # << >>

\* SppEvent::Cong: the status test, then if !cong && !write_buf.is_empty()
CongWrites(status, cong, buf) == status /\ ~cong /\ buf # << >>

\* SppEvent::Cong, the whole handler
Cong(status, h, cong) ==
    /\ dpc = "idle"
    /\ nevents < MaxEvents
    /\ nevents' = nevents + 1
    /\ \E ok \in BOOLEAN :
          /\ olast' = Step("cong", write_buf, << >>, 0, status, cong,
                           IF CongWrites(status, cong, write_buf)
                           THEN <<Tx(h, write_buf, ok)>> ELSE NoTx)
          /\ inflight' = IF CongWrites(status, cong, write_buf) /\ ok
                          THEN Len(write_buf) ELSE inflight
    /\ UNCHANGED <<write_buf, handle, wpc, wop, warg, wh, wret, dpc, dh, ncalls>>
    /\ UNCHANGED inVars
    /\ UNCHANGED appVars

\* keeps the handle when the event reports a failure
ClosedHandleOnSuccess(status, h) == IF status THEN 0 ELSE h

\* SppEvent::Close: rem_handle.store(0) after either branch of the status test
ClosedHandle(status, h) == 0

\* SppEvent::Close: the handle is reset whatever the status
Close(status) ==
    /\ dpc = "idle"
    /\ nevents < MaxEvents
    /\ nevents' = nevents + 1
    /\ handle' = ClosedHandle(status, handle)
    /\ olast' = Step("close", write_buf, << >>, 0, status, FALSE, NoTx)
    /\ inflight' = 0
    /\ UNCHANGED <<write_buf, wpc, wop, warg, wh, wret, dpc, dh, ncalls>>
    /\ UNCHANGED inVars
    /\ UNCHANGED appVars

----------------------------------------------------------------------------
(* Inputs of the inbound side *)

READ_CHUNK == 20
LOOP_LIMIT == 50
PROMPT == 62
LF == 10

MaxZeroArrivals == 1
MaxInCalls == 1
MaxStreamLen == 2
LongLen == 1100

\* 'A', '\r', '>' and a byte that is no UTF-8 text
Alphabet == {65, CR, PROMPT, 255}

RECURSIVE SeqsUpTo(_)
SeqsUpTo(n) ==
    IF n = 0 THEN {<< >>}
    ELSE LET shorter == SeqsUpTo(n - 1)
         IN  shorter \cup {Append(t, b) : t \in {u \in shorter : Len(u) = n - 1},
                                          b \in Alphabet}

\* ATZ\r\rOK\r\r>
AtzReply == <<65, 84, 90, CR, CR, 79, 75, CR, CR, PROMPT>>
\* a reply with a line feed, a prompt inside and the two bytes of U+00E9
\* separated by a carriage return
MixedReply == <<65, LF, PROMPT, 66, 195, CR, 169, PROMPT>>
\* an adapter that never sends the prompt
LongStream == [i \in 1..LongLen |-> IF i % 7 = 0 THEN CR ELSE 65 + (i % 26)]

Streams == (SeqsUpTo(MaxStreamLen) \ {<< >>}) \cup {AtzReply, MixedReply, LongStream}

\* lengths a data-arrival event may carry
ArrivalLens(st) ==
    IF Len(st) > READ_BUF_SIZE THEN {0, 500, 501}
    ELSE IF Len(st) > MaxStreamLen THEN {0, 1, 4}
    ELSE 0..MaxStreamLen
BufLens == {0, 1}

Delivered == SubSeq(stream, 1, sent)

----------------------------------------------------------------------------
(* Protocol thread: SppHandler::read *)

ReadNone == [kind |-> "none", n |-> 0, chunk |-> << >>, pre |-> << >>, buflen |-> 0]
ReadOk(chunk, pre, buflen) ==
    [kind |-> "ok", n |-> Len(chunk), chunk |-> chunk, pre |-> pre, buflen |-> buflen]

\* a loop that never waits
NeverWait(data) == FALSE

\* the loop condition of read: while read_buf.data.is_empty()
MustWait(data) == data = << >>

\* takes the bytes from the back of the queue
BufReadBack(data, n) ==
    LET k == Min(n, Len(data))
    IN  [chunk |-> Last(data, k), rest |-> SubSeq(data, 1, Len(data) - k)]

\* CircularBuffer's io::Read: copies up to n bytes from the front and removes them
BufRead(data, n) ==
    LET k == Min(n, Len(data))
    IN  [chunk |-> SubSeq(data, 1, k), rest |-> TruncateFront(data, Len(data) - k)]

\* clears the flag after every read
AvailableNever(data) == FALSE

\* read's last assignment: available = !data.is_empty()
AvailableAfter(data) == data # << >>

InitInWith(streams) ==
    /\ rdata = << >>
    /\ available = FALSE
    /\ rlock = "free"
    /\ notified = FALSE
    /\ rpc = "idle"
    /\ rbuflen = 0
    /\ rret = ReadNone
    /\ rparked = FALSE
    /\ dipc = "idle"
    /\ epc = "idle"
    /\ loop_count = 0
    /\ response = << >>
    /\ eret = [kind |-> "none", text |-> << >>, cause |-> ""]
    /\ chunks = << >>
    /\ stream \in streams
    /\ sent = 0
    /\ consumed = << >>
    /\ overflowed = FALSE
    /\ nzero = 0
    /\ nin = 0

InitIn == InitInWith(Streams)
InitInQuiet == InitInWith({<< >>})

\* a caller other than read_response enters read with a slice of n bytes
ReadCall(n) ==
    /\ epc = "idle"
    /\ rpc = "idle"
    /\ nin < MaxInCalls
    /\ nin' = nin + 1
    /\ rpc' = "lock"
    /\ rbuflen' = n
    /\ rparked' = FALSE
    /\ UNCHANGED <<rdata, available, rlock, notified, rret, dipc, epc, loop_count,
                   response, eret, chunks, stream, sent, consumed, overflowed, nzero>>
    /\ UNCHANGED outVars
    /\ UNCHANGED appVars

\* read_buf.lock() and the first test of the while loop
ReadLock ==
    /\ rpc = "lock"
    /\ rlock = "free"
    /\ rlock' = "reader"
    /\ rpc' = IF MustWait(rdata) THEN "waitcheck" ELSE "copy"
    /\ UNCHANGED <<rparked, rdata, available, notified, rbuflen, rret, dipc, epc, loop_count,
                   response, eret, chunks, stream, sent, consumed, overflowed, nzero, nin>>
    /\ UNCHANGED outVars
    /\ UNCHANGED appVars

\* a wait that parks with the mutex still held
ParkedLockKept == "reader"

\* Condvar::wait_while unlocks the mutex while the caller is parked
ParkedLock == "free"

\* wait_while(|data| !data.available): tests the flag under the lock and
\* parks, releasing the lock, while it is false
ReadWaitWhile ==
    /\ rpc = "waitcheck"
    /\ IF ~available
       THEN /\ rlock' = ParkedLock
            /\ rpc' = "waiting"
            /\ notified' = FALSE
            /\ rparked' = TRUE
       ELSE /\ rpc' = "reset"
            /\ UNCHANGED <<rlock, notified, rparked>>
    /\ UNCHANGED <<rdata, available, rbuflen, rret, dipc, epc, loop_count, response,
                   eret, chunks, stream, sent, consumed, overflowed, nzero, nin>>
    /\ UNCHANGED outVars
    /\ UNCHANGED appVars

\* the parked reader is woken by notify_all and takes the lock again
ReadWakeNotified ==
    /\ rpc = "waiting"
    /\ notified
    /\ rlock = "free"
    /\ rlock' = "reader"
    /\ notified' = FALSE
    /\ rpc' = "waitcheck"
    /\ UNCHANGED <<rparked, rdata, available, rbuflen, rret, dipc, epc, loop_count, response,
                   eret, chunks, stream, sent, consumed, overflowed, nzero, nin>>
    /\ UNCHANGED outVars
    /\ UNCHANGED appVars

\* the parked reader wakes with no notification (Condvar::wait may do so)
ReadWakeSpurious ==
    /\ rpc = "waiting"
    /\ ~notified
    /\ rlock = "free"
    /\ rlock' = "reader"
    /\ rpc' = "waitcheck"
    /\ UNCHANGED <<rparked, rdata, available, notified, rbuflen, rret, dipc, epc, loop_count,
                   response, eret, chunks, stream, sent, consumed, overflowed, nzero, nin>>
    /\ UNCHANGED outVars
    /\ UNCHANGED appVars

\* read_buf.available = false after wait_while returned, and the loop test
ReadReset ==
    /\ rpc = "reset"
    /\ available' = FALSE
    /\ rpc' = IF MustWait(rdata) THEN "waitcheck" ELSE "copy"
    /\ UNCHANGED <<rparked, rdata, rlock, notified, rbuflen, rret, dipc, epc, loop_count,
                   response, eret, chunks, stream, sent, consumed, overflowed, nzero, nin>>
    /\ UNCHANGED outVars
    /\ UNCHANGED appVars

\* data.read(buf), the flag update, the unlock and the return
ReadCopy ==
    /\ rpc = "copy"
    /\ LET r == BufRead(rdata, rbuflen)
       IN  /\ rdata' = r.rest
           /\ available' = AvailableAfter(r.rest)
           /\ rret' = ReadOk(r.chunk, rdata, rbuflen)
           /\ consumed' = consumed \o r.chunk
    /\ rlock' = "free"
    /\ rpc' = "idle"
    /\ UNCHANGED <<rparked, notified, rbuflen, dipc, epc, loop_count, response, eret, chunks,
                   stream, sent, overflowed, nzero, nin>>
    /\ UNCHANGED outVars
    /\ UNCHANGED appVars

----------------------------------------------------------------------------
(* Dispatcher: handle_spp, SppEvent::DataInd *)

\* with failure status the handler only logs
DataIndFailed ==
    /\ dipc = "idle"
    /\ UNCHANGED <<rparked, rdata, available, rlock, notified, rpc, rbuflen, rret, dipc, epc,
                   loop_count, response, eret, chunks, stream, sent, consumed,
                   overflowed, nzero, nin>>
    /\ UNCHANGED outVars
    /\ UNCHANGED appVars

\* with success status: the lock, the overflow test (which only logs) and
\* extend_from_slice of the length bytes the event carries
DataIndAppend(length) ==
    /\ dipc = "idle"
    /\ rlock = "free"
    /\ sent + length <= Len(stream)
    /\ length = 0 => nzero < MaxZeroArrivals
    /\ nzero' = IF length = 0 THEN nzero + 1 ELSE nzero
    /\ rlock' = "disp"
    /\ dipc' = "data"
    /\ LET max_length == READ_BUF_SIZE - Len(rdata)
           data == SubSeq(stream, sent + 1, sent + length)
       IN  /\ overflowed' = (overflowed \/ length > max_length)
           /\ rdata' = ExtendFromSlice(rdata, data, READ_BUF_SIZE)
    /\ sent' = sent + length
    /\ UNCHANGED <<rparked, available, notified, rpc, rbuflen, rret, epc, loop_count, response,
                   eret, chunks, stream, consumed, nin>>
    /\ UNCHANGED outVars
    /\ UNCHANGED appVars

\* sets the flag only when the queue holds bytes
FlagOnArrivalIfData(data) == data # << >>

\* read_buf.available = true, whatever the event carried
FlagOnArrival(data) == TRUE

\* a notification that reaches nobody
NotifyNone(pending, parked) == pending

\* cvar.notify_all(): a reader parked in the Condvar is woken
NotifyAll(pending, parked) == pending \/ parked

\* available = true; cvar.notify_all(); the guard is dropped
DataIndNotify ==
    /\ dipc = "data"
    /\ available' = FlagOnArrival(rdata)
    /\ notified' = NotifyAll(notified, rpc = "waiting")
    /\ rlock' = "free"
    /\ dipc' = "idle"
    /\ UNCHANGED <<rparked, rdata, rpc, rbuflen, rret, epc, loop_count, response, eret, chunks,
                   stream, sent, consumed, overflowed, nzero, nin>>
    /\ UNCHANGED outVars
    /\ UNCHANGED appVars

----------------------------------------------------------------------------
(* Protocol thread: Elm327::read_response *)

\* keeps the line feed
KeptAlsoLf(b) == b # CR /\ b # PROMPT

\* the bytes the accumulator takes: not '\r', not '\n', not '>'
Kept(b) == b # CR /\ b # LF /\ b # PROMPT

\* for b in &buf[..bytes_read] { if kept { response.push(*b) } }
RECURSIVE PushFiltered(_, _)
PushFiltered(resp, bytes) ==
    IF bytes = << >> THEN resp
    ELSE PushFiltered(IF Kept(Head(bytes)) THEN Append(resp, Head(bytes)) ELSE resp,
                      Tail(bytes))

\* ends the response at any chunk that holds a prompt byte
TerminatedAnywhere(chunk) == \E i \in 1..Len(chunk) : chunk[i] = PROMPT

\* bytes_read > 0 && buf[bytes_read - 1] == b'>'
Terminated(chunk) == Len(chunk) > 0 /\ chunk[Len(chunk)] = PROMPT

\* gives up one iteration later
LimitPassed(count) == count > LOOP_LIMIT

\* if loop_count == 50 { break }
LimitReached(count) == count = LOOP_LIMIT

IsCont(b) == b \in 128..191

\* String::from_utf8's validation, from position i on
RECURSIVE Utf8ValidFrom(_, _)
Utf8ValidFrom(s, i) ==
    LET n == Len(s) - i + 1
        b == s[i]
    IN  IF n <= 0 THEN TRUE
        ELSE IF b < 128 THEN Utf8ValidFrom(s, i + 1)
        ELSE IF b \in 194..223
             THEN n >= 2 /\ IsCont(s[i + 1]) /\ Utf8ValidFrom(s, i + 2)
        ELSE IF b \in 224..239
             THEN /\ n >= 3
                  /\ s[i + 1] \in (IF b = 224 THEN 160..191
                                   ELSE IF b = 237 THEN 128..159 ELSE 128..191)
                  /\ IsCont(s[i + 2])
                  /\ Utf8ValidFrom(s, i + 3)
        ELSE IF b \in 240..244
             THEN /\ n >= 4
                  /\ s[i + 1] \in (IF b = 240 THEN 144..191
                                   ELSE IF b = 244 THEN 128..143 ELSE 128..191)
                  /\ IsCont(s[i + 2])
                  /\ IsCont(s[i + 3])
                  /\ Utf8ValidFrom(s, i + 4)
        ELSE FALSE

Utf8Valid(s) == (\A i \in 1..Len(s) : s[i] < 128) \/ Utf8ValidFrom(s, 1)

\* String::from_utf8(response)?: the text holds the same bytes
FromUtf8(bytes, cause) ==
    IF Utf8Valid(bytes)
    THEN [kind |-> "ok", text |-> bytes, cause |-> cause]
    ELSE [kind |-> "err", text |-> << >>, cause |-> cause]

NoResponse == [kind |-> "none", text |-> << >>, cause |-> ""]

\* the head of the loop, entered with the counter at count and the accumulator
\* at resp: the increment and the limit test; at the limit the loop breaks
\* and the accumulator is decoded and returned, else port.read is entered
\* with a buffer of 20 bytes
LoopHead(count, resp) ==
    /\ loop_count' = count + 1
    /\ response' = resp
    /\ IF LimitReached(count + 1)
       THEN /\ epc' = "idle"
            /\ eret' = FromUtf8(resp, "limit")
            /\ UNCHANGED <<rpc, rbuflen, rparked>>
       ELSE /\ epc' = "reading"
            /\ eret' = NoResponse
            /\ rpc' = "lock"
            /\ rbuflen' = READ_CHUNK
            /\ rparked' = FALSE

\* read_response, from its entry to its first port.read, as every caller
\* runs it
ReadResponseBegin ==
    /\ epc = "idle"
    /\ rpc = "idle"
    /\ chunks' = << >>
    /\ LoopHead(0, << >>)
    /\ UNCHANGED <<rdata, available, rlock, notified, rret, dipc,
                   stream, sent, consumed, overflowed, nzero>>

\* read_response called on its own
RRStart ==
    /\ nin < MaxInCalls
    /\ nin' = nin + 1
    /\ ReadResponseBegin
    /\ UNCHANGED outVars
    /\ UNCHANGED appVars

\* read_response after port.read returned: the filter, the termination test
\* on the raw last byte, and then either the decoding and the return or the
\* next pass of the loop
RRChunk ==
    /\ epc = "reading"
    /\ rpc = "idle"
    /\ chunks' = Append(chunks, rret.chunk)
    /\ LET resp == PushFiltered(response, rret.chunk)
       IN  IF Terminated(rret.chunk)
           THEN /\ response' = resp
                /\ epc' = "idle"
                /\ eret' = FromUtf8(resp, "prompt")
                /\ UNCHANGED <<loop_count, rpc, rbuflen, rparked>>
           ELSE LoopHead(loop_count, resp)
    /\ UNCHANGED <<rdata, available, rlock, notified, rret, dipc,
                   stream, sent, consumed, overflowed, nzero, nin>>
    /\ UNCHANGED outVars
    /\ UNCHANGED appVars

----------------------------------------------------------------------------
(* main and the persisted failure counter: the state at power-up *)

\* get_u8 gives None: the entry was never written
Absent == -1

LedNone == [kind |-> "none", n |-> 0]
LedTimes(n) == [kind |-> "times", n |-> n]
LedError(n) == [kind |-> "error", n |-> n]

SetupNone == [kind |-> "none", step |-> 0]
SetupOk == [kind |-> "ok", step |-> 0]
SetupErr(k) == [kind |-> "err", step |-> k]

GovNone == [act |-> "none", before |-> 0, after |-> 0]
PostNone == [kind |-> "none", text |-> << >>]

\* the execution contexts that send to the indicator: main, the radio
\* callback (handle_spp) and the HTTP server task (the /post handler)
Contexts == {"main", "callback", "httpd"}

\* no send in progress in any context
NoSend == [c \in Contexts |-> LedNone]

\* the handler invocations that may be in progress at a time
Handlers == {1, 2}

InitAppWith(counts) ==
    /\ nvs \in counts
    /\ bpc = "boot"
    /\ sidx = 1
    /\ written = << >>
    /\ nresp = 0
    /\ sres = SetupNone
    /\ disc = "none"
    /\ led = LedNone
    /\ breset = FALSE
    /\ glast = GovNone
    /\ fails = 0
    /\ restarts = 0
    /\ ncycles = 0
    /\ ppc = "idle"
    /\ pbody = << >>
    /\ pbuf = << >>
    /\ presp = PostNone
    /\ nposts = 0
    /\ elock = 0
    /\ hpc = [h \in Handlers |-> "idle"]
    /\ hres = [h \in Handlers |-> "none"]
    /\ ledq = << >>
    /\ apc = "recv"
    /\ lsend = NoSend

\* main not started: the entry absent
InitAppOff == InitAppWith({Absent})

----------------------------------------------------------------------------
(* The outbound side: protocol thread against dispatcher *)

NextOut ==
    \/ \E n \in WriteLens : WriteExtend(Payload(n, ncalls))
    \/ \E n \in ReqLens : ElmExtend(Payload(n, ncalls))
    \/ ElmCr
    \/ FlushLoad
    \/ FlushTx
    \/ \E status \in BOOLEAN, h \in Handles : OpenStore(status, h)
    \/ OpenFlush
    \/ \E status \in BOOLEAN, h \in AckHandles, length \in AckLens, cong \in BOOLEAN :
          WriteAck(status, h, length, cong)
    \/ \E status \in BOOLEAN, h \in AckHandles, cong \in BOOLEAN : Cong(status, h, cong)
    \/ \E status \in BOOLEAN : Close(status)

\* the outbound side alone: no adapter stream, the inbound side at rest
InitOutbound == InitOut /\ InitInQuiet /\ InitAppOff

SpecOut == InitOutbound /\ [][NextOut]_vars

----------------------------------------------------------------------------
(* The inbound side: reader and read_response against data arrivals *)

NextIn ==
    \/ \E n \in BufLens : ReadCall(n)
    \/ ReadLock
    \/ ReadWaitWhile
    \/ ReadWakeNotified
    \/ ReadWakeSpurious
    \/ ReadReset
    \/ ReadCopy
    \/ RRStart
    \/ RRChunk
    \/ DataIndFailed
    \/ \E length \in ArrivalLens(stream) : DataIndAppend(length)
    \/ DataIndNotify

\* the inbound side alone: the outbound side at rest
InitInbound == InitOut /\ InitIn /\ InitAppOff

SpecIn == InitInbound /\ [][NextIn]_vars

----------------------------------------------------------------------------
(* The inbound side under fair scheduling: a thread that can take a step    *)
(* takes it, and the dispatcher finishes the event it began.  Whether data  *)
(* arrives at all, and whether the Condvar wakes a reader spuriously, is    *)
(* left open.                                                               *)

WakeStreams == {<<65, PROMPT>>, <<CR>>}

InitWake == InitOut /\ InitInWith(WakeStreams) /\ InitAppOff

ReaderFair ==
    /\ WF_vars(ReadLock)
    /\ WF_vars(ReadWaitWhile)
    /\ WF_vars(ReadWakeNotified)
    /\ WF_vars(ReadReset)
    /\ WF_vars(ReadCopy)
    /\ WF_vars(RRChunk)

DispatcherFair == WF_vars(DataIndNotify)

SpecWake == InitWake /\ [][NextIn]_vars /\ ReaderFair /\ DispatcherFair

----------------------------------------------------------------------------
(* The inbound side when the adapter sends one reply: bytes that end with    *)
(* the one prompt byte, delivered in fragments of any of the lengths below.  *)

\* a reply of as many bytes as read_response has passes of its loop
LimitReply == [i \in 1..LOOP_LIMIT |-> IF i = LOOP_LIMIT THEN PROMPT ELSE 65]

ReplyStreams == {<<65, PROMPT>>, AtzReply, LimitReply}

\* the fragments of a reply: the short replies in any of the lengths of
\* ArrivalLens; the long one byte by byte, or what is left of it at once
ReplyArrivalLens(st, n) ==
    IF Len(st) < LOOP_LIMIT THEN ArrivalLens(st) ELSE {1, Len(st) - n}

\* a data-arrival event with a fragment of the reply; a fragment of the long
\* reply arrives when the reader has taken the one before
ReplyDataInd(length) ==
    /\ Len(stream) >= LOOP_LIMIT => rdata = << >>
    /\ DataIndAppend(length)

NextReply ==
    \/ \E n \in BufLens : ReadCall(n)
    \/ ReadLock
    \/ ReadWaitWhile
    \/ ReadWakeNotified
    \/ ReadWakeSpurious
    \/ ReadReset
    \/ ReadCopy
    \/ RRStart
    \/ RRChunk
    \/ DataIndFailed
    \/ \E length \in ReplyArrivalLens(stream, sent) : ReplyDataInd(length)
    \/ DataIndNotify

InitReply == InitOut /\ InitInWith(ReplyStreams) /\ InitAppOff

SpecReply == InitReply /\ [][NextReply]_vars

----------------------------------------------------------------------------
(* Both sides together: the one protocol thread is inside at most one call, *)
(* and the one callback context handles one event at a time.                *)

AllWriteLens == {1}
AllReqLens == {250}
AllAckLens == {250}
AllArrivalLens == {0, 2}
AllStreams == {<<65, PROMPT>>}
AllHandles == {7}
AllBufLens == {1}

ThreadFree == wpc = "idle" /\ rpc = "idle" /\ epc = "idle"
DispFree == dpc = "idle" /\ dipc = "idle"

ThreadWrite(n) == ThreadFree /\ WriteExtend(Payload(n, ncalls))
ThreadElmRequest(n) == ThreadFree /\ ElmExtend(Payload(n, ncalls))
ThreadRead(n) == ThreadFree /\ ReadCall(n)
ThreadReadResponse == ThreadFree /\ RRStart

EventOpen(status, h) == DispFree /\ OpenStore(status, h)
EventWrite(status, h, length, cong) == DispFree /\ WriteAck(status, h, length, cong)
EventCong(status, h, cong) == DispFree /\ Cong(status, h, cong)
EventClose(status) == DispFree /\ Close(status)
EventDataInd(length) == DispFree /\ DataIndAppend(length)
EventDataIndFailed == DispFree /\ DataIndFailed

NextAll ==
    \/ \E n \in AllWriteLens : ThreadWrite(n)
    \/ \E n \in AllReqLens : ThreadElmRequest(n)
    \/ ElmCr
    \/ FlushLoad
    \/ FlushTx
    \/ \E n \in AllBufLens : ThreadRead(n)
    \/ ThreadReadResponse
    \/ ReadLock
    \/ ReadWaitWhile
    \/ ReadWakeNotified
    \/ ReadWakeSpurious
    \/ ReadReset
    \/ ReadCopy
    \/ RRChunk
    \/ \E status \in BOOLEAN, h \in AllHandles : EventOpen(status, h)
    \/ OpenFlush
    \/ \E h \in AllHandles, length \in AllAckLens, cong \in BOOLEAN :
          EventWrite(TRUE, h, length, cong)
    \/ \E h \in AllHandles : EventCong(TRUE, h, FALSE)
    \/ EventClose(TRUE)
    \/ \E length \in AllArrivalLens : EventDataInd(length)
    \/ EventDataIndFailed
    \/ DataIndNotify

InitAll == InitOut /\ InitInWith(AllStreams) /\ InitAppOff

SpecAll == InitAll /\ [][NextAll]_vars

----------------------------------------------------------------------------
(* main: bring-up (start_discovery, Elm327::setup, the counter reset, the   *)
(* network), and handle_spp's SppEvent::DiscoveryComp with its restarts     *)

MaxPowerCycles == 1

\* b"??", b"ATZ", b"ATE 0", b"STP 34", b"ATI", b"ATH 1", b"ATCAF 1",
\* b"ATS 1", b"ATSH DA10F1"
Commands ==
    << <<63, 63>>,
       <<65, 84, 90>>,
       <<65, 84, 69, 32, 48>>,
       <<83, 84, 80, 32, 51, 52>>,
       <<65, 84, 73>>,
       <<65, 84, 72, 32, 49>>,
       <<65, 84, 67, 65, 70, 32, 49>>,
       <<65, 84, 83, 32, 49>>,
       <<65, 84, 83, 72, 32, 68, 65, 49, 48, 70, 49>> >>

\* a setup that sends ATZ before ??
SetupCommandSwapped(k) == Commands[IF k = 1 THEN 2 ELSE IF k = 2 THEN 1 ELSE k]

\* the command of the k-th round trip of setup
SetupCommand(k) == Commands[k]

\* a setup that ignores the errors of its calls
ProceedsAlways(res) == TRUE

\* the ? after every call of setup: only Ok goes on
Proceeds(res) == res.kind = "ok"

\* n replies of the adapter, each the text K and the prompt
Replies(n) == [i \in 1..(2 * n) |-> IF i % 2 = 1 THEN 75 ELSE PROMPT]

\* an adapter that answers every command, and one whose second reply is no text
BootStreams == {Replies(Len(Commands)), <<75, PROMPT, 255, PROMPT>>}
BootArrivalLens == {2}

\* the state of a process just started: SppHandler::new and main's locals
RebootOut ==
    /\ write_buf' = << >>
    /\ handle' = 0
    /\ wpc' = "idle"
    /\ wop' = "none"
    /\ warg' = << >>
    /\ wh' = 0
    /\ wret' = RetNone
    /\ dpc' = "idle"
    /\ dh' = 0
    /\ olast' = Step("init", << >>, << >>, 0, TRUE, FALSE, NoTx)
    /\ ncalls' = 0
    /\ nevents' = 0
    /\ inflight' = 0

RebootIn(streams) ==
    /\ rdata' = << >>
    /\ available' = FALSE
    /\ rlock' = "free"
    /\ notified' = FALSE
    /\ rpc' = "idle"
    /\ rbuflen' = 0
    /\ rret' = ReadNone
    /\ rparked' = FALSE
    /\ dipc' = "idle"
    /\ epc' = "idle"
    /\ loop_count' = 0
    /\ response' = << >>
    /\ eret' = NoResponse
    /\ chunks' = << >>
    /\ stream' \in streams
    /\ sent' = 0
    /\ consumed' = << >>
    /\ overflowed' = FALSE
    /\ nzero' = 0
    /\ nin' = 0

\* everything but the persisted entry and the histories that span boots
Reboot ==
    /\ RebootOut
    /\ RebootIn(BootStreams)
    /\ bpc' = "boot"
    /\ sidx' = 1
    /\ written' = << >>
    /\ nresp' = 0
    /\ sres' = SetupNone
    /\ disc' = "none"
    /\ led' = LedNone
    /\ breset' = FALSE
    /\ ppc' = "idle"
    /\ pbody' = << >>
    /\ pbuf' = << >>
    /\ presp' = PostNone
    /\ nposts' = 0
    /\ elock' = 0
    /\ hpc' = [h \in Handlers |-> "idle"]
    /\ hres' = [h \in Handlers |-> "none"]
    /\ ledq' = << >>
    /\ apc' = "recv"
    /\ lsend' = NoSend

\* main: spp.start_discovery(&BD_ADDR).error_ind(1)?, then Times(1)
StartDiscovery(ok) ==
    /\ bpc = "boot"
    /\ IF ok
       THEN /\ disc' = "pending"
            /\ led' = LedTimes(1)
            /\ bpc' = "setup_write"
       ELSE /\ disc' = disc
            /\ led' = LedError(1)
            /\ bpc' = "exit"
    /\ UNCHANGED <<nvs, sidx, written, nresp, sres, breset, glast, fails, restarts, ncycles>>
    /\ UNCHANGED <<outVars, inVars, postVars>>
    /\ UNCHANGED ledVars

\* setup: self.write_request(command), entering write_elm_request
SetupWriteRequest ==
    /\ bpc = "setup_write"
    /\ ThreadFree
    /\ ElmRequestBegin(SetupCommand(sidx))
    /\ written' = Append(written, SetupCommand(sidx))
    /\ bpc' = "setup_writing"
    /\ UNCHANGED ncalls
    /\ UNCHANGED <<nvs, sidx, nresp, sres, disc, led, breset, glast, fails, restarts, ncycles>>
    /\ UNCHANGED <<inVars, postVars>>
    /\ UNCHANGED ledVars

\* setup: the ? after write_request
SetupWriteReturned ==
    /\ bpc = "setup_writing"
    /\ wpc = "idle"
    /\ IF Proceeds(wret)
       THEN /\ bpc' = "setup_read"
            /\ UNCHANGED <<sres, led>>
       ELSE /\ bpc' = "exit"
            /\ sres' = SetupErr(sidx)
            /\ led' = LedError(2)
    /\ UNCHANGED <<nvs, sidx, written, nresp, disc, breset, glast, fails, restarts, ncycles>>
    /\ UNCHANGED <<outVars, inVars, postVars>>
    /\ UNCHANGED ledVars

\* setup: self.read_response(), entering it
SetupReadResponse ==
    /\ bpc = "setup_read"
    /\ ThreadFree
    /\ ReadResponseBegin
    /\ bpc' = "setup_reading"
    /\ UNCHANGED nin
    /\ UNCHANGED <<nvs, sidx, written, nresp, sres, disc, led, breset, glast, fails,
                   restarts, ncycles>>
    /\ UNCHANGED <<outVars, postVars>>
    /\ UNCHANGED ledVars

\* a setup that returns after its eighth round trip
SetupDoneEarly(k) == k = Len(Commands) - 1

\* the round trip for ATSH DA10F1 is the last: Ok(()) follows it
SetupDone(k) == k = Len(Commands)

\* setup: the ? after read_response; after the last command setup returns
\* Ok(()) and main sends Times(2)
SetupReadReturned ==
    /\ bpc = "setup_reading"
    /\ epc = "idle"
    /\ rpc = "idle"
    /\ IF Proceeds(eret)
       THEN /\ nresp' = nresp + 1
            /\ IF SetupDone(sidx)
               THEN /\ bpc' = "reset"
                    /\ sres' = SetupOk
                    /\ led' = LedTimes(2)
                    /\ sidx' = sidx
               ELSE /\ bpc' = "setup_write"
                    /\ sidx' = sidx + 1
                    /\ UNCHANGED <<sres, led>>
       ELSE /\ bpc' = "exit"
            /\ sres' = SetupErr(sidx)
            /\ led' = LedError(2)
            /\ UNCHANGED <<nresp, sidx>>
    /\ UNCHANGED <<nvs, written, disc, breset, glast, fails, restarts, ncycles>>
    /\ UNCHANGED <<outVars, inVars, postVars>>
    /\ UNCHANGED ledVars

\* a main that never resets the counter
NeedsResetNever(c) == FALSE

\* get_u8(NVS_DISC_FAIL_COUNT)?.is_some_and(|n| n > 0)
NeedsReset(c) == c # Absent /\ c > 0

\* main: "Reset the discovery fail count if needed"
ResetCount ==
    /\ bpc = "reset"
    /\ bpc' = "wifi"
    /\ IF NeedsReset(nvs)
       THEN /\ nvs' = 0
            /\ breset' = TRUE
            /\ fails' = 0
            /\ restarts' = 0
       ELSE UNCHANGED <<nvs, breset, fails, restarts>>
    /\ UNCHANGED <<sidx, written, nresp, sres, disc, led, glast, ncycles>>
    /\ UNCHANGED <<outVars, inVars, postVars>>
    /\ UNCHANGED ledVars

\* main: connect_wifi_client(&mut wifi).error_ind(3)?, then Times(3)
ConnectWifi(ok) ==
    /\ bpc = "wifi"
    /\ IF ok
       THEN /\ bpc' = "up"
            /\ led' = LedTimes(3)
       ELSE /\ bpc' = "exit"
            /\ led' = LedError(3)
    /\ UNCHANGED <<nvs, sidx, written, nresp, sres, disc, breset, glast, fails, restarts,
                   ncycles>>
    /\ UNCHANGED <<outVars, inVars, postVars>>
    /\ UNCHANGED ledVars

\* SppEvent::DiscoveryComp with success: spp.connect is dispatched
DiscoveryFound ==
    /\ disc = "pending"
    /\ DispFree
    /\ disc' = "found"
    /\ UNCHANGED <<nvs, bpc, sidx, written, nresp, sres, led, breset, glast, fails,
                   restarts, ncycles>>
    /\ UNCHANGED <<outVars, inVars, postVars>>
    /\ UNCHANGED ledVars

\* restarts once more
MayRestartOnceMore(n) == n <= 3

\* .filter(|n| n <= &2)
MayRestart(n) == n <= 2

\* get_u8(..).unwrap_or(Some(0)).or(Some(0)): an absent entry counts as 0
FailCount(c) == IF c = Absent THEN 0 ELSE c

\* a restart that leaves the counter as it was
StoredCountSame(n) == n

\* elm_nvs.set_u8(NVS_DISC_FAIL_COUNT, n + 1)
StoredCount(n) == n + 1

\* SppEvent::DiscoveryComp with a failure status, first part: Times(4) is
\* sent and the callback sleeps for the settle delay; the counter is not
\* read yet
DiscoveryFailedBlink ==
    /\ disc = "pending"
    /\ DispFree
    /\ disc' = "failing"
    /\ led' = LedTimes(4)
    /\ glast' = [act |-> "blink", before |-> FailCount(nvs), after |-> FailCount(nvs)]
    /\ UNCHANGED <<nvs, bpc, sidx, written, nresp, sres, breset, fails, restarts,
                   ncycles>>
    /\ UNCHANGED <<outVars, inVars, postVars>>
    /\ UNCHANGED ledVars

\* SppEvent::DiscoveryComp with a failure status, after the delay: the
\* counter is read, then either set_u8(n + 1) and the panic that restarts
\* the process, or Error(4)
DiscoveryFailed ==
    /\ disc = "failing"
    /\ fails' = fails + 1
    /\ LET n == FailCount(nvs)
       IN  IF MayRestart(n)
           THEN /\ nvs' = StoredCount(n)
                /\ glast' = [act |-> "restart", before |-> n, after |-> StoredCount(n)]
                /\ restarts' = restarts + 1
                /\ Reboot
                /\ UNCHANGED ncycles
           ELSE /\ led' = LedError(4)
                /\ disc' = "failed"
                /\ glast' = [act |-> "fatal", before |-> n, after |-> FailCount(nvs)]
                /\ UNCHANGED <<nvs, bpc, sidx, written, nresp, sres, breset, restarts,
                               ncycles>>
                /\ UNCHANGED <<outVars, inVars, postVars, ledVars>>

\* a store that loses the entry when the power goes
Erased(c) == Absent

\* the entry lives in the NVS partition: it is the same after a power cycle
Survives(c) == c

\* the device is switched off and on: the entry is all that survives
PowerCycle ==
    /\ ncycles < MaxPowerCycles
    /\ (disc = "failed" \/ bpc \in {"up", "exit"})
    /\ ncycles' = ncycles + 1
    /\ Reboot
    /\ nvs' = Survives(nvs)
    /\ UNCHANGED <<glast, fails, restarts>>

\* spp.connect is dispatched only by a DiscoveryComp event with success status
LinkRequested(d) == d = "found"

\* the link events of a boot: the Open that answers spp.connect, data and
\* Close on the open link
BootOpen(status, h) ==
    LinkRequested(disc) /\ nevents = 0 /\ DispFree /\ OpenStore(status, h)
BootClose(status) == handle > 0 /\ DispFree /\ Close(status)
BootDataInd(length) == handle > 0 /\ DispFree /\ DataIndAppend(length)

NextBoot ==
    \/ \E ok \in BOOLEAN : StartDiscovery(ok)
    \/ SetupWriteRequest
    \/ ElmCr
    \/ FlushLoad
    \/ FlushTx
    \/ SetupWriteReturned
    \/ SetupReadResponse
    \/ ReadLock
    \/ ReadWaitWhile
    \/ ReadWakeNotified
    \/ ReadWakeSpurious
    \/ ReadReset
    \/ ReadCopy
    \/ RRChunk
    \/ SetupReadReturned
    \/ ResetCount
    \/ \E ok \in BOOLEAN : ConnectWifi(ok)
    \/ DiscoveryFound
    \/ DiscoveryFailedBlink
    \/ DiscoveryFailed
    \/ PowerCycle
    \/ \E status \in BOOLEAN, h \in AllHandles : BootOpen(status, h)
    \/ OpenFlush
    \/ \E status \in BOOLEAN : BootClose(status)
    \/ \E length \in BootArrivalLens : BootDataInd(length)
    \/ DataIndNotify

\* a device whose counter was never written, or was reset
InitBoot == InitOut /\ InitInWith(BootStreams) /\ InitAppWith({Absent, 0})

SpecBoot == InitBoot /\ [][NextBoot]_vars

----------------------------------------------------------------------------
(* main: the /post handler of the running gateway *)

MaxPosts == 2

\* the Content-Length values tried
PostLens == {0, 200, 250, 251, 300}
PostStreams == {<<75, PROMPT>>, <<75, PROMPT, 75, PROMPT>>, <<255, PROMPT>>}
PostArrivalLens == {2}

\* req.read failed
IoError == -1

\* what one req.read(&mut buf) may report for a body of len bytes: all of it,
\* a part of it (Read::read may return before the buffer is full), or an error
ReadCounts(len) == {len, len \div 2, IoError}

\* let mut buf = vec![0; len]; req.read(&mut buf)?: the got bytes that were
\* read, then the zeroes the buffer was created with
ReqRead(body, len, got) == [i \in 1..len |-> IF i <= got THEN body[i] ELSE 0]

\* if len > 250
TooBig(len) == len > 250

LedHigh == [kind |-> "high", n |-> 0]
LedLow == [kind |-> "low", n |-> 0]

\* into_status_response(413) with the body "Request too big"
Post413 ==
    [kind |-> "413",
     text |-> <<82, 101, 113, 117, 101, 115, 116, 32, 116, 111, 111, 32, 98, 105, 103>>]
PostOk(text) == [kind |-> "ok", text |-> text]
PostErr == [kind |-> "err", text |-> << >>]

\* the handler from the size test to its entry into write_request
PostRequest(len, got) ==
    /\ bpc = "up"
    /\ ppc = "idle"
    /\ ThreadFree
    /\ nposts < MaxPosts
    /\ nposts' = nposts + 1
    /\ pbody' = Payload(len, nposts)
    /\ IF TooBig(len)
       THEN /\ presp' = Post413
            /\ pbuf' = << >>
            /\ UNCHANGED <<ppc, led>>
            /\ UNCHANGED outVars
       ELSE IF got = IoError
       THEN /\ presp' = PostErr
            /\ pbuf' = << >>
            /\ led' = LedHigh
            /\ UNCHANGED ppc
            /\ UNCHANGED outVars
       ELSE /\ presp' = PostNone
            /\ pbuf' = ReqRead(Payload(len, nposts), len, got)
            /\ led' = LedHigh
            /\ ppc' = "writing"
            /\ ElmRequestBegin(ReqRead(Payload(len, nposts), len, got))
            /\ UNCHANGED ncalls
    /\ UNCHANGED lockVars
    /\ UNCHANGED <<nvs, bpc, sidx, written, nresp, sres, disc, breset, glast, fails,
                   restarts, ncycles>>
    /\ UNCHANGED inVars
    /\ UNCHANGED ledVars

\* the ? after elm327.write_request(&buf)
PostWriteReturned ==
    /\ ppc = "writing"
    /\ wpc = "idle"
    /\ IF Proceeds(wret)
       THEN /\ ppc' = "read"
            /\ UNCHANGED presp
       ELSE /\ ppc' = "idle"
            /\ presp' = PostErr
    /\ UNCHANGED <<pbody, pbuf, nposts>>
    /\ UNCHANGED lockVars
    /\ UNCHANGED <<outVars, inVars, bootVars>>
    /\ UNCHANGED ledVars

\* elm327.read_response(), entering it
PostReadResponse ==
    /\ ppc = "read"
    /\ ThreadFree
    /\ ReadResponseBegin
    /\ ppc' = "reading"
    /\ UNCHANGED nin
    /\ UNCHANGED <<pbody, pbuf, presp, nposts>>
    /\ UNCHANGED lockVars
    /\ UNCHANGED <<outVars, bootVars>>
    /\ UNCHANGED ledVars

\* the ? after read_response, Low, and the response text written back
PostReadReturned ==
    /\ ppc = "reading"
    /\ epc = "idle"
    /\ rpc = "idle"
    /\ ppc' = "idle"
    /\ IF Proceeds(eret)
       THEN /\ presp' = PostOk(eret.text)
            /\ led' = LedLow
       ELSE /\ presp' = PostErr
            /\ UNCHANGED led
    /\ UNCHANGED <<pbody, pbuf, nposts>>
    /\ UNCHANGED lockVars
    /\ UNCHANGED <<nvs, bpc, sidx, written, nresp, sres, disc, breset, glast, fails,
                   restarts, ncycles>>
    /\ UNCHANGED <<outVars, inVars>>
    /\ UNCHANGED ledVars

PostDataInd(length) == DispFree /\ DataIndAppend(length)

NextPost ==
    \/ \E len \in PostLens : \E got \in ReadCounts(len) : PostRequest(len, got)
    \/ ElmCr
    \/ FlushLoad
    \/ FlushTx
    \/ PostWriteReturned
    \/ PostReadResponse
    \/ ReadLock
    \/ ReadWaitWhile
    \/ ReadWakeNotified
    \/ ReadWakeSpurious
    \/ ReadReset
    \/ ReadCopy
    \/ RRChunk
    \/ PostReadReturned
    \/ \E length \in PostArrivalLens : PostDataInd(length)
    \/ DataIndNotify

\* the gateway after bring-up: the link open, both queues drained, main in
\* its idle loop
InitPost ==
    /\ write_buf = << >>
    /\ handle \in AllHandles
    /\ wpc = "idle"
    /\ wop = "none"
    /\ warg = << >>
    /\ wh = 0
    /\ wret = RetNone
    /\ dpc = "idle"
    /\ dh = handle
    /\ olast = Step("init", << >>, << >>, 0, TRUE, FALSE, NoTx)
    /\ ncalls = 0
    /\ nevents = 0
    /\ inflight = 0
    /\ InitInWith(PostStreams)
    /\ nvs \in {Absent, 0}
    /\ bpc = "up"
    /\ sidx = Len(Commands)
    /\ written = Commands
    /\ nresp = Len(Commands)
    /\ sres = SetupOk
    /\ disc = "found"
    /\ led = LedTimes(3)
    /\ breset = FALSE
    /\ glast = GovNone
    /\ fails = 0
    /\ restarts = 0
    /\ ncycles = 0
    /\ ppc = "idle"
    /\ pbody = << >>
    /\ pbuf = << >>
    /\ presp = PostNone
    /\ nposts = 0
    /\ elock = 0
    /\ hpc = [h \in Handlers |-> "idle"]
    /\ hres = [h \in Handlers |-> "none"]
    /\ ledq = << >>
    /\ apc = "recv"
    /\ lsend = NoSend

SpecPost == InitPost /\ [][NextPost]_vars

----------------------------------------------------------------------------
(* Requests handled at the same time: each invocation of the /post closure  *)
(* locks the Mutex around Elm327 before write_request and holds the guard   *)
(* until the closure returns.  The engine has one set of call variables:    *)
(* whoever is inside write_request or read_response uses them.              *)

\* the body lengths of the requests
ServeLens == {0, 200}

\* a lock that is given to whoever asks
LockFreeAlways(l) == TRUE

\* Mutex::lock returns when no guard is alive
LockFree(l) == l = 0

\* the guard is dropped when the closure returns, by ? or at its end
Unlocked(l) == 0

\* the handler is between its write_request and the return of its
\* read_response
InCycle(h) == hpc[h] \in {"writing", "read", "reading"}

\* a request that passed the size test: send(High) and req.read, up to
\* elm327.lock()
ServeArrive(h) ==
    /\ bpc = "up"
    /\ hpc[h] = "idle"
    /\ nposts < MaxPosts
    /\ nposts' = nposts + 1
    /\ hpc' = [hpc EXCEPT ![h] = "lock"]
    /\ hres' = [hres EXCEPT ![h] = "none"]
    /\ led' = LedHigh
    /\ UNCHANGED <<ppc, pbody, pbuf, presp, elock>>
    /\ UNCHANGED <<nvs, bpc, sidx, written, nresp, sres, disc, breset, glast, fails,
                   restarts, ncycles>>
    /\ UNCHANGED <<outVars, inVars, ledVars>>

\* elm327.lock().unwrap() returns and write_request is entered
ServeLock(h, len) ==
    /\ hpc[h] = "lock"
    /\ LockFree(elock)
    /\ elock' = h
    /\ hpc' = [hpc EXCEPT ![h] = "writing"]
    /\ ElmRequestBegin(Payload(len, nposts))
    /\ UNCHANGED ncalls
    /\ UNCHANGED <<ppc, pbody, pbuf, presp, nposts, hres>>
    /\ UNCHANGED <<inVars, bootVars, ledVars>>

\* the ? after elm327.write_request(&buf): an error ends the closure
ServeWriteReturned(h) ==
    /\ hpc[h] = "writing"
    /\ wpc = "idle"
    /\ IF Proceeds(wret)
       THEN /\ hpc' = [hpc EXCEPT ![h] = "read"]
            /\ UNCHANGED <<elock, hres>>
       ELSE /\ hpc' = [hpc EXCEPT ![h] = "idle"]
            /\ hres' = [hres EXCEPT ![h] = "err"]
            /\ elock' = Unlocked(elock)
    /\ UNCHANGED <<ppc, pbody, pbuf, presp, nposts>>
    /\ UNCHANGED <<outVars, inVars, bootVars, ledVars>>

\* elm327.read_response(), entering it
ServeReadResponse(h) ==
    /\ hpc[h] = "read"
    /\ ThreadFree
    /\ ReadResponseBegin
    /\ hpc' = [hpc EXCEPT ![h] = "reading"]
    /\ UNCHANGED nin
    /\ UNCHANGED <<ppc, pbody, pbuf, presp, nposts, elock, hres>>
    /\ UNCHANGED <<outVars, bootVars, ledVars>>

\* the ? after read_response; on Ok send(Low) and the response; the closure
\* returns either way
ServeReadReturned(h) ==
    /\ hpc[h] = "reading"
    /\ epc = "idle"
    /\ rpc = "idle"
    /\ hpc' = [hpc EXCEPT ![h] = "idle"]
    /\ elock' = Unlocked(elock)
    /\ IF Proceeds(eret)
       THEN /\ hres' = [hres EXCEPT ![h] = "ok"]
            /\ led' = LedLow
       ELSE /\ hres' = [hres EXCEPT ![h] = "err"]
            /\ UNCHANGED led
    /\ UNCHANGED <<ppc, pbody, pbuf, presp, nposts>>
    /\ UNCHANGED <<nvs, bpc, sidx, written, nresp, sres, disc, breset, glast, fails,
                   restarts, ncycles>>
    /\ UNCHANGED <<outVars, inVars, ledVars>>

NextServe ==
    \/ \E h \in Handlers : ServeArrive(h)
    \/ \E h \in Handlers, len \in ServeLens : ServeLock(h, len)
    \/ ElmCr
    \/ FlushLoad
    \/ FlushTx
    \/ \E h \in Handlers : ServeWriteReturned(h)
    \/ \E h \in Handlers : ServeReadResponse(h)
    \/ ReadLock
    \/ ReadWaitWhile
    \/ ReadWakeNotified
    \/ ReadWakeSpurious
    \/ ReadReset
    \/ ReadCopy
    \/ RRChunk
    \/ \E h \in Handlers : ServeReadReturned(h)
    \/ \E length \in PostArrivalLens : PostDataInd(length)
    \/ DataIndNotify

InitServe == InitPost

SpecServe == InitServe /\ [][NextServe]_vars

----------------------------------------------------------------------------
(* The indicator: start_led_blink's channel of one slot and its thread, and *)
(* the sends of main, of handle_spp and of the /post handler in the order   *)
(* of their code.  What lies between two sends of a context is reduced to   *)
(* its outcome.                                                             *)

\* mpsc::sync_channel(1)
LED_QUEUE_SIZE == 1

\* led_blink.send(cmd): the context is inside send until the channel takes
\* the command
LedSend(c, cmd) ==
    /\ lsend[c] = LedNone
    /\ lsend' = [lsend EXCEPT ![c] = cmd]

\* the channel has a free slot
HasRoom(q) == Len(q) < LED_QUEUE_SIZE

\* send returns: the channel has room and buffers the command
LedSendReturns(c) ==
    /\ lsend[c] # LedNone
    /\ HasRoom(ledq)
    /\ ledq' = Append(ledq, lsend[c])
    /\ lsend' = [lsend EXCEPT ![c] = LedNone]
    /\ led' = lsend[c]
    /\ UNCHANGED apc
    /\ UNCHANGED <<nvs, bpc, sidx, written, nresp, sres, disc, breset, glast, fails,
                   restarts, ncycles>>
    /\ UNCHANGED <<outVars, inVars, postVars>>

\* the thread: led_blink_rx.recv() and the match; Error(n) sets forever,
\* Times(n) blinks n times, High and Low set the pin and go back to recv
LedRecv ==
    /\ apc = "recv"
    /\ ledq # << >>
    /\ ledq' = Tail(ledq)
    /\ apc' = CASE Head(ledq).kind = "error" /\ Head(ledq).n > 0 -> "forever"
                [] Head(ledq).kind = "times" /\ Head(ledq).n > 0 -> "times"
                [] OTHER -> "recv"
    /\ UNCHANGED lsend
    /\ UNCHANGED <<outVars, inVars, bootVars, postVars>>

\* the thread: the count blinks of Times(n) are over, back to recv
LedTimesDone ==
    /\ apc = "times"
    /\ apc' = "recv"
    /\ UNCHANGED <<ledq, lsend>>
    /\ UNCHANGED <<outVars, inVars, bootVars, postVars>>

\* the thread: one more round of an Error pattern; forever is never cleared
LedErrorRound ==
    /\ apc = "forever"
    /\ UNCHANGED vars

\* main: start_discovery(..).error_ind(1)?, then send(Times(1))
LedStartDiscovery(ok) ==
    /\ bpc = "boot"
    /\ IF ok
       THEN /\ disc' = "pending"
            /\ LedSend("main", LedTimes(1))
            /\ bpc' = "setup_write"
       ELSE /\ disc' = disc
            /\ LedSend("main", LedError(1))
            /\ bpc' = "exit"
    /\ UNCHANGED <<ledq, apc>>
    /\ UNCHANGED <<nvs, sidx, written, nresp, sres, led, breset, glast, fails, restarts,
                   ncycles>>
    /\ UNCHANGED <<outVars, inVars, postVars>>

\* main: elm327.setup().error_ind(2)?, then send(Times(2)); setup returns
\* only after the adapter answered or a transmit failed, that is on a link
\* that a successful discovery opened
LedSetup(ok) ==
    /\ bpc = "setup_write"
    /\ lsend["main"] = LedNone
    /\ disc = "found"
    /\ IF ok
       THEN /\ LedSend("main", LedTimes(2))
            /\ sres' = SetupOk
            /\ bpc' = "reset"
       ELSE /\ LedSend("main", LedError(2))
            /\ sres' = SetupErr(1)
            /\ bpc' = "exit"
    /\ UNCHANGED <<ledq, apc>>
    /\ UNCHANGED <<nvs, sidx, written, nresp, disc, led, breset, glast, fails, restarts,
                   ncycles>>
    /\ UNCHANGED <<outVars, inVars, postVars>>

\* main: the counter reset, once send(Times(2)) has returned
LedResetCount == lsend["main"] = LedNone /\ ResetCount

\* main: connect_wifi_client(..).error_ind(3)?, then send(Times(3)); the
\* server and its /post handler are registered after that send
LedConnectWifi(ok) ==
    /\ bpc = "wifi"
    /\ IF ok
       THEN /\ LedSend("main", LedTimes(3))
            /\ bpc' = "up"
       ELSE /\ LedSend("main", LedError(3))
            /\ bpc' = "exit"
    /\ UNCHANGED <<ledq, apc>>
    /\ UNCHANGED <<nvs, sidx, written, nresp, sres, disc, led, breset, glast, fails,
                   restarts, ncycles>>
    /\ UNCHANGED <<outVars, inVars, postVars>>

\* main: espnow.send(BROADCAST, &data).error_ind(2)?, with the handler
\* registered; Ok enters the idle loop, Err sends Error(2) and returns, which
\* drops the server
LedEspnowSend(ok) ==
    /\ bpc = "up"
    /\ lsend["main"] = LedNone
    /\ IF ok
       THEN /\ bpc' = "run"
            /\ UNCHANGED lsend
       ELSE /\ LedSend("main", LedError(2))
            /\ bpc' = "stopping"
    /\ UNCHANGED <<ledq, apc>>
    /\ UNCHANGED <<nvs, sidx, written, nresp, sres, disc, led, breset, glast, fails,
                   restarts, ncycles>>
    /\ UNCHANGED <<outVars, inVars, postVars>>

\* main returns: the server is dropped once no request is being handled
LedServerDropped ==
    /\ bpc = "stopping"
    /\ lsend["main"] = LedNone
    /\ ppc = "idle"
    /\ bpc' = "exit"
    /\ UNCHANGED <<nvs, sidx, written, nresp, sres, disc, led, breset, glast, fails,
                   restarts, ncycles>>
    /\ UNCHANGED <<outVars, inVars, postVars, ledVars>>

\* the /post handler is registered and the server runs
Serving ==
    \/ (bpc = "up" /\ lsend["main"] = LedNone)
    \/ bpc \in {"run", "stopping"}

\* the /post handler, a request that passed the size test: send(High)
LedPostHigh ==
    /\ Serving
    /\ ppc = "idle"
    /\ nposts < MaxPosts
    /\ nposts' = nposts + 1
    /\ LedSend("httpd", LedHigh)
    /\ ppc' = "writing"
    /\ UNCHANGED <<pbody, pbuf, presp>>
    /\ UNCHANGED lockVars
    /\ UNCHANGED <<ledq, apc>>
    /\ UNCHANGED <<outVars, inVars, bootVars>>

\* the /post handler, after send(High) returned: req.read, write_request and
\* read_response either fail, which ends the handler, or are followed by
\* send(Low)
LedPostLow(ok) ==
    /\ ppc = "writing"
    /\ lsend["httpd"] = LedNone
    /\ IF ok
       THEN /\ LedSend("httpd", LedLow)
            /\ ppc' = "answer"
            /\ UNCHANGED presp
       ELSE /\ ppc' = "idle"
            /\ presp' = PostErr
            /\ UNCHANGED lsend
    /\ UNCHANGED <<pbody, pbuf, nposts>>
    /\ UNCHANGED lockVars
    /\ UNCHANGED <<ledq, apc>>
    /\ UNCHANGED <<outVars, inVars, bootVars>>

\* the /post handler, after send(Low) returned: the response is written
LedPostAnswered ==
    /\ ppc = "answer"
    /\ lsend["httpd"] = LedNone
    /\ ppc' = "idle"
    /\ presp' = PostOk(<<75>>)
    /\ UNCHANGED <<pbody, pbuf, nposts>>
    /\ UNCHANGED lockVars
    /\ UNCHANGED <<outVars, inVars, bootVars, ledVars>>

\* SppEvent::DiscoveryComp with a failure status: send(Times(4))
LedDiscoveryFailedBlink ==
    /\ disc = "pending"
    /\ disc' = "failing"
    /\ LedSend("callback", LedTimes(4))
    /\ glast' = [act |-> "blink", before |-> FailCount(nvs), after |-> FailCount(nvs)]
    /\ UNCHANGED <<ledq, apc>>
    /\ UNCHANGED <<nvs, bpc, sidx, written, nresp, sres, led, breset, fails, restarts,
                   ncycles>>
    /\ UNCHANGED <<outVars, inVars, postVars>>

\* the same handler once send(Times(4)) returned and the delay is over:
\* set_u8(n + 1) and the panic, which restarts everything but the store, or
\* send(Error(4))
LedDiscoveryFailed ==
    /\ disc = "failing"
    /\ lsend["callback"] = LedNone
    /\ fails' = fails + 1
    /\ LET n == FailCount(nvs)
       IN  IF MayRestart(n)
           THEN /\ nvs' = StoredCount(n)
                /\ glast' = [act |-> "restart", before |-> n, after |-> StoredCount(n)]
                /\ restarts' = restarts + 1
                /\ Reboot
                /\ UNCHANGED ncycles
           ELSE /\ LedSend("callback", LedError(4))
                /\ disc' = "failed"
                /\ glast' = [act |-> "fatal", before |-> n, after |-> FailCount(nvs)]
                /\ UNCHANGED <<ledq, apc>>
                /\ UNCHANGED <<nvs, bpc, sidx, written, nresp, sres, led, breset,
                               restarts, ncycles>>
                /\ UNCHANGED <<outVars, inVars, postVars>>

NextLed ==
    \/ \E ok \in BOOLEAN : LedStartDiscovery(ok)
    \/ \E ok \in BOOLEAN : LedSetup(ok)
    \/ LedResetCount
    \/ \E ok \in BOOLEAN : LedConnectWifi(ok)
    \/ \E ok \in BOOLEAN : LedEspnowSend(ok)
    \/ LedServerDropped
    \/ LedPostHigh
    \/ \E ok \in BOOLEAN : LedPostLow(ok)
    \/ LedPostAnswered
    \/ DiscoveryFound
    \/ LedDiscoveryFailedBlink
    \/ LedDiscoveryFailed
    \/ \E c \in Contexts : LedSendReturns(c)
    \/ LedRecv
    \/ LedTimesDone
    \/ LedErrorRound

InitLed == InitOut /\ InitInWith(BootStreams) /\ InitAppWith({Absent, 0, 2})

\* every context and the indicator thread are scheduled: a send that can
\* return returns, the thread takes a buffered command and ends a finite
\* pattern
LedFair ==
    /\ \A c \in Contexts : WF_vars(LedSendReturns(c))
    /\ WF_vars(LedRecv)
    /\ WF_vars(LedTimesDone)

SpecLed == InitLed /\ [][NextLed]_vars /\ LedFair

----------------------------------------------------------------------------
(* Claims about the outbound side, checked under SpecOut *)

AppendActs == {"write_extend", "elm_extend", "elm_cr"}
CallActs == {"write_reject", "write_extend", "elm_reject", "elm_extend"}
InputSizeErrors == {"InvalidInput", "Other:InvalidInput"}

\* C1: a write or write_elm_request of more than WRITE_BUF_SIZE bytes fails
\* with the input-size error and leaves the outbound queue as it was:
\* nothing appended, nothing removed, nothing transmitted.
C1_OversizeRejected ==
    (olast.act \in CallActs /\ Len(olast.arg) > WRITE_BUF_SIZE) =>
        /\ wret.kind = "err"
        /\ wret.err \in InputSizeErrors
        /\ wpc = "idle"
        /\ write_buf = olast.pre
        /\ olast.txs = NoTx

\* C1 witness: an oversize call was made on an open link with bytes queued
C1_Witness ==
    /\ olast.act \in {"write_reject", "elm_reject"}
    /\ Len(olast.arg) > WRITE_BUF_SIZE
    /\ olast.pre # << >>
    /\ handle > 0

C3_OutboundBounded == Len(write_buf) <= WRITE_BUF_SIZE

\* C3 witness: an append that did not fit has just been made
C3_Witness ==
    /\ olast.act \in AppendActs
    /\ Len(olast.pre) + Len(olast.arg) > WRITE_BUF_SIZE
    /\ Len(write_buf) = WRITE_BUF_SIZE

\* C4: an append that does not fit in the remaining capacity is rejected
\* before mutation: the call reports an error and the queued bytes are kept.
C4_RejectedBeforeMutation ==
    (olast.act \in AppendActs /\
     Len(olast.pre) + Len(olast.arg) > WRITE_BUF_SIZE) =>
        /\ write_buf = olast.pre
        /\ wret.kind = "err"

\* C5: a successful write acknowledgment of d bytes on a queue of q bytes
\* leaves the last q - min(d, q) bytes, in order.
C5_AckRemovesPrefix ==
    (olast.act = "ack" /\ olast.status) =>
        LET q == Len(olast.pre)
            m == Min(olast.d, q)
        IN  /\ Len(write_buf) = q - m
            /\ q - m >= 0
            /\ write_buf = SubSeq(olast.pre, m + 1, q)

\* C5 witness: part of a queue was acknowledged
C5_Witness ==
    /\ olast.act = "ack"
    /\ olast.status
    /\ 0 < olast.d
    /\ olast.d < Len(olast.pre)

\* an acknowledgment reporting more than was queued
C5_OverAck ==
    /\ olast.act = "ack"
    /\ olast.status
    /\ olast.pre # << >>
    /\ olast.d > Len(olast.pre)
----------------------------------------------------------------------------
(* Claims about the inbound side and read_response, checked under SpecIn *)

IsPrefix(s, t) == Len(s) <= Len(t) /\ s = SubSeq(t, 1, Len(s))

RECURSIVE Flatten(_)
Flatten(cs) == IF cs = << >> THEN << >> ELSE Head(cs) \o Flatten(Tail(cs))

NotStripped(b) == b \notin {13, 10, 62}
Strip(s) == SelectSeq(s, NotStripped)
EndsWithPrompt(c) == c # << >> /\ c[Len(c)] = 62

Returned == epc = "idle" /\ eret.kind # "none"

\* C6: read with a destination of at least one byte returns at least one
\* byte, and read returns only from a queue that holds at least one byte.
C6_ReadReturnsData ==
    rret.kind = "ok" =>
        /\ rret.pre # << >>
        /\ (rret.buflen >= 1 => rret.n >= 1)

\* C6 witness: a read found the queue empty, parked, and returned bytes later
C6_Witness ==
    /\ rret.kind = "ok"
    /\ rpc = "idle"
    /\ rparked
    /\ rret.buflen >= 1
    /\ rret.n >= 1

\* C7: read returns the first min(len(buffer), queue length) bytes of the
\* queue and removes exactly those; while no arrival exceeded the remaining
\* capacity, what was read so far followed by what is queued is what was
\* delivered, so the reads concatenate to a prefix of the deliveries.
C7_ReadFifo ==
    /\ (rret.kind = "ok" =>
            /\ rret.chunk = SubSeq(rret.pre, 1, Min(rret.buflen, Len(rret.pre)))
            /\ rret.n = Len(rret.chunk))
    /\ (~overflowed =>
            /\ consumed \o rdata = Delivered
            /\ IsPrefix(consumed, Delivered))

\* C7 witness: several reads returned, one of them shorter than the queue,
\* and bytes are still queued
C7_Witness ==
    /\ ~overflowed
    /\ rret.kind = "ok"
    /\ rret.n < Len(rret.pre)
    /\ Len(consumed) > rret.n
    /\ rdata # << >>

\* C8: whenever the inbound lock is free, a non-empty queue has its
\* availability flag set.
C8_AvailableWhenNonEmpty ==
    rlock = "free" => (rdata # << >> => available)

\* C8 witness: after a zero-length arrival and a read that had parked, bytes
\* remain queued with the lock free
C8_Witness ==
    /\ rlock = "free"
    /\ rdata # << >>
    /\ available
    /\ nzero > 0
    /\ rparked
    /\ rret.kind = "ok"

\* the flag set on an empty queue, the lock free
C8_FlagOnEmpty == rlock = "free" /\ available /\ rdata = << >>

\* the flag clear on a non-empty queue (only under the lock)
C8_ClearUnderLock == rdata # << >> /\ ~available

\* C9 as first stated: when the first chunk ending in '>' is chunk k,
\* read_response returns chunks 1..k without '\r', '\n' and '>'.
C9_Original ==
    (Returned /\ chunks # << >> /\ EndsWithPrompt(chunks[Len(chunks)])) =>
        /\ eret.kind = "ok"
        /\ eret.text = Strip(Flatten(chunks))

\* C9 amended: read_response never reads past a chunk that ends in '>'; when
\* chunk k is the first such chunk it returns chunks 1..k without '\r', '\n'
\* and '>' if those bytes are valid UTF-8, and a decode error otherwise.
C9_ResponseStripped ==
    /\ \A i \in 1..(Len(chunks) - 1) : ~EndsWithPrompt(chunks[i])
    /\ (Returned /\ chunks # << >> /\ EndsWithPrompt(chunks[Len(chunks)])) =>
            LET text == Strip(Flatten(chunks))
            IN  /\ eret.cause = "prompt"
                /\ IF Utf8Valid(text)
                   THEN eret.kind = "ok" /\ eret.text = text
                   ELSE eret.kind = "err"

\* C9 witness: ATZ\r\rOK\r\r> arrived in pieces and ATZOK was returned
C9_Witness ==
    /\ Returned
    /\ stream = AtzReply
    /\ Len(chunks) >= 2
    /\ eret.kind = "ok"
    /\ eret.text = <<65, 84, 90, 79, 75>>

----------------------------------------------------------------------------
(* Further claims about the outbound side, checked under SpecOut *)

\* C11: write_request of a command of 0..WRITE_BUF_SIZE bytes on an empty
\* outbound queue queues the command bytes followed by one carriage return,
\* and what its flush submits to the open link is command + CR.  The first
\* call of a run finds the queue empty; with no event before the terminator
\* is appended nothing else touched the queue, and with one event before the
\* transmit that event was the Open that set the handle.
C11_RequestQueued ==
    /\ (wop = "elm" /\ olast.act = "elm_cr" /\ ncalls = 1 /\ nevents = 0) =>
            write_buf = warg \o <<CR>>
    /\ (wop = "elm" /\ olast.act = "flush_tx" /\ ncalls = 1 /\ nevents = 1) =>
            olast.txs[1].data = warg \o <<CR>>

\* a command shorter than the buffer was queued whole and submitted whole
C11_ShortCommand ==
    /\ wop = "elm"
    /\ olast.act = "flush_tx"
    /\ ncalls = 1
    /\ nevents = 1
    /\ warg # << >>
    /\ olast.txs[1].data = warg \o <<CR>>

\* C15: a successful congestion event that reports the congestion cleared,
\* on a non-empty queue, issues exactly one transmit carrying the whole queue
\* in order; one that reports congestion, or finds the queue empty, issues
\* none; the queue is the same after the event in every case.
C15_CongRetransmits ==
    olast.act = "cong" =>
        /\ write_buf = olast.pre
        /\ (olast.status /\ ~olast.cong /\ olast.pre # << >>) =>
                /\ Len(olast.txs) = 1
                /\ olast.txs[1].data = olast.pre
        /\ (olast.status /\ (olast.cong \/ olast.pre = << >>)) =>
                olast.txs = NoTx

\* C15 witness: the congestion cleared on a full queue and it was transmitted
C15_Witness ==
    /\ olast.act = "cong"
    /\ olast.status
    /\ ~olast.cong
    /\ Len(olast.pre) = WRITE_BUF_SIZE
    /\ Len(olast.txs) = 1
    /\ olast.txs[1].data = write_buf

\* a congestion event that issued no transmit on a non-empty queue
C15_StillCongested ==
    /\ olast.act = "cong"
    /\ olast.status
    /\ olast.cong
    /\ olast.pre # << >>
    /\ olast.txs = NoTx

C20_Original ==
    /\ (olast.act = "open_store" => handle = dh /\ handle > 0)
    /\ (olast.act = "close" => handle = 0)
    /\ (olast.act = "open_fail" => handle = 0)

\* C20 amended: the handle changes only in an Open success, which stores the
\* nonzero handle of the event, and in a Close, which stores zero whatever
\* its status; a failed Open and every other step leave it as it was.  So it
\* is nonzero exactly when the last Open success or Close was an Open success.
C20_HandleFollowsLink ==
    [][ /\ (olast'.act = "open_store" /\ nevents' # nevents) =>
                (handle' = dh' /\ handle' \in Handles /\ handle' > 0)
        /\ (olast'.act = "close" /\ nevents' # nevents) => handle' = 0
        /\ (olast'.act = "open_fail" /\ nevents' # nevents) => handle' = handle
        /\ (handle' # handle) => olast'.act \in {"open_store", "close"}
      ]_vars

\* C20 witness: a Close that reported failure reset the handle of an open link
C20_Witness ==
    /\ olast.act = "close"
    /\ ~olast.status
    /\ handle = 0
    /\ dh > 0
    /\ nevents = 2

\* a second Open replaced the handle of the first
C20_Reopened ==
    /\ olast.act = "open_store"
    /\ nevents = 2
    /\ handle = 9
    /\ wh = 7

----------------------------------------------------------------------------
(* Claims about both sides together, checked under SpecAll *)

\* the steps the holder of the inbound lock takes without anyone's help
ReaderRuns == ENABLED (ReadWaitWhile \/ ReadReset \/ ReadCopy)
DispatcherRuns == ENABLED DataIndNotify

\* the protocol thread waits for the dispatcher: for the inbound lock it
\* holds, or parked in the condition variable for its notification
ThreadWaitsForDispatcher ==
    \/ (rpc = "lock" /\ rlock = "disp")
    \/ (rpc = "waiting" /\ (~notified \/ rlock = "disp"))

\* the dispatcher waits for the protocol thread: a data arrival needs the
\* inbound lock the thread holds
DispatcherWaitsForThread == DispFree /\ rlock = "reader"

\* C18: the protocol thread and the dispatcher never wait for each other.
\* Each holds at most one buffer lock at a time (a critical section of the
\* outbound buffer is one step, taken by the thread only outside read and by
\* the dispatcher only outside a data arrival); the holder of the inbound
\* lock can always take its next step by itself; and a reader parked on an
\* empty inbound queue does not hold the inbound lock.
C18_NoDeadlock ==
    /\ ~(ThreadWaitsForDispatcher /\ DispatcherWaitsForThread)
    /\ (wpc # "idle" => (rpc = "idle" /\ rlock # "reader"))
    /\ (dpc # "idle" => (dipc = "idle" /\ rlock # "disp"))
    /\ (rlock = "reader" => ReaderRuns)
    /\ (rlock = "disp" => DispatcherRuns)
    /\ (rpc = "waiting" => rlock # "reader")

\* C18 witness: the reader is parked on the empty inbound queue while the
\* dispatcher, after handling an Open for bytes queued by a write, holds the
\* inbound lock for a data arrival
C18_Witness ==
    /\ rpc = "waiting"
    /\ rlock = "disp"
    /\ dipc = "data"
    /\ handle > 0
    /\ write_buf # << >>
    /\ rdata # << >>

----------------------------------------------------------------------------
(* Claims about bring-up and the failure counter, checked under SpecBoot *)

\* C12: from an absent or zero counter, and until a bring-up resets it, the
\* first three discovery failures each persist counter + 1 (1, 2, 3) and
\* restart the process; every later one restarts nothing, leaves the counter
\* at 3 and switches the indicator to the continuous pattern Error(4).  The
\* counter never exceeds 3 and at most three restarts are forced.
C12_BoundedRestarts ==
    /\ nvs \in {Absent} \cup 0..3
    /\ restarts <= 3
    /\ (IF nvs = Absent THEN 0 ELSE nvs) = Min(fails, 3)
    /\ restarts = Min(fails, 3)
    /\ (glast.act = "restart" =>
            /\ glast.before <= 2
            /\ glast.after = glast.before + 1)
    /\ (glast.act = "fatal" => (glast.before = 3 /\ glast.after = 3))
    /\ (disc = "failed" =>
            /\ glast.act = "fatal"
            /\ nvs = 3
            /\ led = LedError(4)
            /\ fails >= 4)

\* C12 witness: the fourth failure in a row found the counter at 3
C12_Witness ==
    /\ disc = "failed"
    /\ fails = 4
    /\ restarts = 3
    /\ nvs = 3
    /\ led = LedError(4)
    /\ ncycles = 0

\* a fifth failure, after the halted device was switched off and on
C12_LaterFailure ==
    /\ disc = "failed"
    /\ fails = 5
    /\ restarts = 3
    /\ nvs = 3

\* setup returned Ok and main went past its counter reset
AfterReset == bpc \in {"wifi", "up"} \/ (bpc = "exit" /\ sres.kind = "ok")

\* C13 as first stated: once setup completed successfully the counter is 0,
\* and in a boot whose bring-up fails, in setup or in a later stage, the
\* counter is not reset.
C13_Original ==
    /\ (AfterReset => (nvs = Absent \/ nvs = 0))
    /\ (breset => sres.kind = "ok")
    /\ (bpc = "exit" => ~breset)

\* C13 amended: main resets the counter as soon as setup has returned Ok,
\* before the later stages of bring-up: from then on the counter is 0 (or
\* still absent) even if a later stage fails, and in a boot where setup
\* fails or has not finished the counter is not reset.
C13_ResetAfterSetup ==
    /\ (AfterReset => (nvs = Absent \/ nvs = 0))
    /\ (breset => (sres.kind = "ok" /\ nresp = 9 /\ Len(written) = 9 /\ nvs = 0))
    /\ (sres.kind # "ok" => ~breset)

\* C13 witness: a restart had left the counter above 0, setup then succeeded,
\* the counter was reset and the network failed afterwards
C13_Witness ==
    /\ breset
    /\ nvs = 0
    /\ glast.act = "restart"
    /\ bpc = "exit"
    /\ led = LedError(3)

\* ??, ATZ, ATE 0, STP 34, ATI, ATH 1, ATCAF 1, ATS 1, ATSH DA10F1
BringUpSequence ==
    << <<63, 63>>, <<65, 84, 90>>, <<65, 84, 69, 32, 48>>,
       <<83, 84, 80, 32, 51, 52>>, <<65, 84, 73>>, <<65, 84, 72, 32, 49>>,
       <<65, 84, 67, 65, 70, 32, 49>>, <<65, 84, 83, 32, 49>>,
       <<65, 84, 83, 72, 32, 68, 65, 49, 48, 70, 49>> >>

\* C16: setup writes ??, ATZ, ATE 0, STP 34, ATI, ATH 1, ATCAF 1, ATS 1,
\* ATSH DA10F1 in this order, each once, and writes command k + 1 only after
\* the read_response for command k has returned Ok.
C16_SetupOrder ==
    /\ Len(written) <= Len(BringUpSequence)
    /\ written = SubSeq(BringUpSequence, 1, Len(written))
    /\ Len(written) <= nresp + 1
    /\ (bpc = "setup_write" => Len(written) = nresp)
    /\ (bpc = "setup_writing" => (wop = "elm" /\ warg = BringUpSequence[nresp + 1]))
    /\ (sres.kind = "ok" => (written = BringUpSequence /\ nresp = 9))

\* C16 witness: setup returned Ok after its nine round trips
C16_Witness ==
    /\ sres.kind = "ok"
    /\ written = BringUpSequence
    /\ nresp = 9
    /\ Len(consumed) = 18

\* C17: when the write_request or the read_response of a setup step fails,
\* setup returns at once: main ends with Error(2), the failed command was
\* written once and no later one is, and the counter is not reset.
C17_SetupAborts ==
    /\ ((wret.kind = "err" /\ wpc = "idle") => bpc \in {"setup_writing", "exit"})
    /\ ((eret.kind = "err" /\ epc = "idle") => bpc \in {"setup_reading", "exit"})
    /\ (sres.kind = "err" =>
            /\ bpc = "exit"
            /\ wpc = "idle"
            /\ epc = "idle"
            /\ (wret.kind = "err" \/ eret.kind = "err")
            /\ written = SubSeq(BringUpSequence, 1, sres.step)
            /\ nresp = sres.step - 1
            /\ ~breset
            /\ led = LedError(2))

\* C17 witness: the second response was no text; a restart had left the
\* counter at 1 and it stays there
C17_Witness ==
    /\ sres = SetupErr(2)
    /\ eret.kind = "err"
    /\ Len(written) = 2
    /\ nvs = 1
    /\ bpc = "exit"

\* a failed transmit ended setup in its first write_request
C17_WriteFailed ==
    /\ sres = SetupErr(1)
    /\ wret = RetErr("ConnectionReset")
    /\ Len(written) = 1
    /\ bpc = "exit"

----------------------------------------------------------------------------
(* Claims about the /post handler, checked under SpecPost *)

\* C14: a payload of more than 250 bytes is answered with the client-size
\* error and causes no write_request, no change of the outbound queue and no
\* read_response; a payload of at most 250 bytes is passed byte for byte to
\* write_request, and the text read_response returns is the response.
C14_PostForwards ==
    /\ ((nposts > 0 /\ Len(pbody) > 250) =>
            /\ presp = Post413
            /\ ppc = "idle"
            /\ wpc = "idle"
            /\ epc = "idle")
    /\ ((nposts = 1 /\ Len(pbody) > 250) =>
            /\ write_buf = << >>
            /\ olast.act = "init"
            /\ wop = "none"
            /\ chunks = << >>
            /\ eret = NoResponse)
    /\ (ppc \in {"writing", "read", "reading"} =>
            /\ Len(pbody) <= 250
            /\ pbuf = pbody
            /\ warg = pbody)
    /\ (presp.kind = "ok" => (pbuf = pbody /\ presp.text = eret.text))

\* a payload of 300 bytes was rejected after one of 200 bytes had been
\* forwarded whole and answered
C14_RejectedAfterForwarded ==
    /\ nposts = 2
    /\ Len(pbody) = 300
    /\ presp = Post413
    /\ wop = "elm"
    /\ Len(warg) = 200
    /\ warg = Payload(200, 0)
    /\ Len(write_buf) = 201
    /\ eret.kind = "ok"

\* a payload of 200 bytes reached write_request as its first 100 bytes
\* followed by 100 zero bytes
C14_ShortRead ==
    /\ ppc = "writing"
    /\ Len(pbody) = 200
    /\ Len(warg) = 200
    /\ SubSeq(warg, 1, 100) = SubSeq(pbody, 1, 100)
    /\ warg[101] = 0
    /\ pbody[101] # 0

----------------------------------------------------------------------------
(* Claims about bytes in flight on the link, checked under SpecOut *)

\* the step is a transmit that the link accepted and that is not the
\* retransmission of a write acknowledgment
Submits ==
    /\ \/ (wpc = "tx" /\ wpc' = "idle")
       \/ (dpc = "open" /\ dpc' = "idle")
       \/ (nevents' = nevents + 1 /\ olast'.act = "cong")
    /\ olast'.txs # NoTx
    /\ olast'.txs[1].ok
    /\ olast'.txs[1].data # << >>

\* C30 (implicit): a flush by write, an Open flush or a congestion-clear
\* retransmit never submits bytes that an earlier transmit handed to the
\* link and that no write acknowledgment has reported on since.
C30_NoResubmission == [][Submits => inflight = 0]_vars

\* two bytes were written one after the other on the open link, and the
\* second flush submitted the first byte again
C30_SecondWriteResubmits ==
    /\ olast.act = "flush_tx"
    /\ ncalls = 2
    /\ nevents = 1
    /\ olast.txs[1].ok
    /\ Len(olast.txs[1].data) = 2
    /\ inflight = 2
    /\ wret = RetOk(1)

\* what is in flight is at the front of the outbound queue
C30_InFlightQueued == inflight <= Len(write_buf)

----------------------------------------------------------------------------
(* Further claims about the inbound side, checked under SpecIn *)

HasPrompt(c) == \E i \in 1..Len(c) : c[i] = 62

\* C22: read_response ends at the first chunk whose last raw byte is '>' and
\* at no earlier chunk: while it is still reading no chunk so far ended in
\* '>', a chunk with '>' only before its last byte does not end it, every
\* chunk holds at least one byte, and no '>' reaches the accumulator.  The
\* only other exit is the iteration limit, taken when no chunk ended in '>'.
C22_PromptEndsResponse ==
    /\ \A i \in 1..Len(chunks) : chunks[i] # << >>
    /\ \A i \in 1..(Len(chunks) - 1) : ~EndsWithPrompt(chunks[i])
    /\ (epc = "reading" => \A i \in 1..Len(chunks) : ~EndsWithPrompt(chunks[i]))
    /\ (Returned =>
            /\ (eret.cause = "prompt") =
                   (chunks # << >> /\ EndsWithPrompt(chunks[Len(chunks)]))
            /\ (eret.cause = "limit") =
                   (\A i \in 1..Len(chunks) : ~EndsWithPrompt(chunks[i])))
    /\ ~HasPrompt(response)
    /\ ~HasPrompt(eret.text)

\* C22 witness: a chunk with '>' before its last byte was read, the response
\* went on and ended at a later chunk whose last byte was '>'
C22_Witness ==
    /\ Returned
    /\ eret.cause = "prompt"
    /\ Len(chunks) >= 2
    /\ \E i \in 1..(Len(chunks) - 1) : HasPrompt(chunks[i])
    /\ eret.kind = "ok"
    /\ eret.text = <<65, 66, 195, 169>>

----------------------------------------------------------------------------
(* Further claims about the dispatcher's outbound events, under SpecOut *)

\* C25 as first stated: a write acknowledgment with failure status leaves
\* the outbound queue unchanged and issues no transmit; with success status
\* one transmit of the whole remaining content is issued exactly when the
\* event reports no congestion and bytes remain.
C25_Original ==
    olast.act = "ack" =>
        /\ (~olast.status => (write_buf = olast.pre /\ olast.txs = NoTx))
        /\ (olast.status =>
                /\ write_buf = AfterAck(olast.pre, olast.d)
                /\ (olast.txs # NoTx) = (~olast.cong /\ write_buf # << >>))

\* C25 amended: a write acknowledgment with failure status leaves the
\* outbound queue unchanged, one with success status removes the
\* acknowledged prefix; after either, exactly one transmit carrying the whole
\* remaining content is issued if and only if the event reports the link not
\* congested and bytes remain.
C25_AckRetransmits ==
    olast.act = "ack" =>
        /\ write_buf = (IF olast.status THEN AfterAck(olast.pre, olast.d) ELSE olast.pre)
        /\ (olast.txs # NoTx) = (~olast.cong /\ write_buf # << >>)
        /\ (olast.txs # NoTx =>
                /\ Len(olast.txs) = 1
                /\ olast.txs[1].data = write_buf)

\* C25 witness: an acknowledgment with failure status, the link not
\* congested, found bytes queued and transmitted all of them again
C25_Witness ==
    /\ olast.act = "ack"
    /\ ~olast.status
    /\ ~olast.cong
    /\ olast.pre # << >>
    /\ write_buf = olast.pre
    /\ Len(olast.txs) = 1
    /\ olast.txs[1].data = write_buf

\* an acknowledgment with success status removed a proper prefix and the
\* rest was transmitted
C25_RestRetransmitted ==
    /\ olast.act = "ack"
    /\ olast.status
    /\ ~olast.cong
    /\ 0 < Len(write_buf)
    /\ Len(write_buf) < Len(olast.pre)
    /\ Len(olast.txs) = 1
    /\ olast.txs[1].data = write_buf

----------------------------------------------------------------------------
(* Further claims about bring-up, checked under SpecBoot *)

\* the request/response round trips setup has completed in this boot
RoundTrips == nresp

\* C29 as first stated: setup performs exactly eleven request/response
\* round trips.
C29_Original ==
    sres = SetupOk => (Len(written) = 11 /\ RoundTrips = 11)

\* C29 amended: setup performs exactly nine request/response round trips:
\* when it returns Ok nine commands were written and nine responses read,
\* and it never starts a tenth.
C29_NineRoundTrips ==
    /\ Len(written) <= 9
    /\ RoundTrips <= Len(written)
    /\ (sres = SetupOk => (Len(written) = 9 /\ RoundTrips = 9))
    /\ (bpc \in {"reset", "wifi", "up"} => sres = SetupOk)

\* C29 witness: setup has just returned Ok after its ninth round trip
C29_Witness ==
    /\ bpc = "reset"
    /\ sres = SetupOk
    /\ Len(written) = 9
    /\ RoundTrips = 9
    /\ chunks # << >>

\* C24: a data arrival keeps the inbound queue at no more than
\* READ_BUF_SIZE bytes and copies no more than the remaining capacity, so
\* every byte queued and unread before the event is still queued, in order
\* and at the front, after it.
C24_ClampedCopy ==
    [][(dipc = "idle" /\ dipc' = "data") =>
           /\ Len(rdata') <= READ_BUF_SIZE
           /\ IsPrefix(rdata, rdata')]_vars

\* the inbound queue never holds more than READ_BUF_SIZE bytes
C24_InboundBounded == Len(rdata) <= READ_BUF_SIZE

\* an arrival larger than the remaining capacity has left a full queue
C24_Overflowed == overflowed /\ Len(rdata) = READ_BUF_SIZE /\ dipc = "idle"

----------------------------------------------------------------------------
(* Further claims about both sides together, checked under SpecAll *)

\* C23: a data-arrival event with success status appends its bytes to the
\* inbound queue (all of them while they fit), then sets the availability
\* flag and wakes the reader parked in the condition variable; one with
\* failure status changes neither the queue nor the flag and wakes nobody;
\* no step of a data-arrival event changes the outbound queue or the handle.
C23_DataIndEffect ==
    [][/\ (dipc = "idle" /\ dipc' = "data") =>
              LET data == SubSeq(stream, sent + 1, sent')
              IN  /\ (Len(rdata) + Len(data) <= READ_BUF_SIZE => rdata' = rdata \o data)
                  /\ rlock' = "disp"
                  /\ UNCHANGED <<write_buf, handle, wpc, olast>>
       /\ (dipc = "data" /\ dipc' = "idle") =>
              /\ available'
              /\ (rpc = "waiting" => notified')
              /\ rlock' = "free"
              /\ UNCHANGED <<rdata, write_buf, handle, wpc, olast>>
       /\ EventDataIndFailed =>
              UNCHANGED <<rdata, available, notified, write_buf, handle>>
      ]_vars

\* C23 witness: with bytes in the outbound queue and the link open, a
\* zero-length arrival has set the flag and woken the parked reader
C23_Witness ==
    /\ dipc = "idle"
    /\ nzero > 0
    /\ sent = 0
    /\ rdata = << >>
    /\ available
    /\ notified
    /\ rpc = "waiting"
    /\ write_buf # << >>
    /\ handle > 0

----------------------------------------------------------------------------
(* Claims about the inbound side under fair scheduling, checked under SpecWake *)

\* a read is in progress
Reading == rpc # "idle"

\* the dispatcher has finished every data-arrival event it began, and the
\* inbound queue holds at least one byte
DataProcessed == dipc = "idle" /\ rdata # << >>

\* C21: under fair scheduling a read in progress returns once a
\* data-arrival event with success status and at least one byte has been
\* processed, wherever the reader stood (before the lock, at the flag test,
\* parked, at the flag reset) when the dispatcher appended, set the flag and
\* notified: no wake-up is lost.
C21_NoLostWakeup == (Reading /\ DataProcessed) ~> ~Reading

\* C21 witness: a read that had parked on the empty queue was woken by the
\* notification of an arrival and returned its bytes
C21_Witness ==
    /\ rpc = "idle"
    /\ rparked
    /\ rret.kind = "ok"
    /\ rret.n >= 1
    /\ sent >= 1
    /\ ~notified
    /\ dipc = "idle"
    /\ stream \in WakeStreams

\* the reader is parked while the dispatcher is between its append and its
\* notification
C21_ParkedDuringArrival == rpc = "waiting" /\ dipc = "data" /\ rdata # << >>

----------------------------------------------------------------------------
(* Claims about the discovery-failure policy, checked under SpecBoot *)

\* the failure handler is between its pattern and its decision
GovernorWaiting ==
    /\ led = LedTimes(4)
    /\ glast.act = "blink"
    /\ FailCount(nvs) = glast.before
    /\ handle = 0
    /\ nevents = 0

\* the failure handler has ended without a restart
GovernorHalted ==
    /\ led = LedError(4)
    /\ glast.act = "fatal"
    /\ FailCount(nvs) = glast.before
    /\ handle = 0
    /\ nevents = 0

\* the steps of the failure handler, in their order
GovernorStep ==
    /\ (disc' = "failing" /\ disc # "failing") =>
           /\ disc = "pending"
           /\ led' = LedTimes(4)
           /\ nvs' = nvs
           /\ bpc' = bpc
    /\ (disc = "failing" /\ disc' # "failing") =>
           IF FailCount(nvs) <= 2
           THEN /\ nvs' = FailCount(nvs) + 1
                /\ glast'.act = "restart"
                /\ bpc' = "boot"
                /\ disc' = "none"
                /\ handle' = 0
                /\ write_buf' = << >>
           ELSE /\ nvs' = nvs
                /\ disc' = "failed"
                /\ led' = LedError(4)
                /\ bpc' = bpc
    /\ (disc \in {"failing", "failed"} => disc' \notin {"pending", "found"})
    /\ (nvs' # nvs /\ disc = "failing") => bpc' = "boot"

\* C28: on a discovery failure the handler first emits the blink pattern and
\* waits, with the counter untouched; only then it reads the counter and
\* either stores counter + 1 and restarts (after the restart the new value
\* is the stored one) or switches to the fatal pattern and leaves the
\* counter alone; a failed discovery is followed by no connect request, no
\* open link and no second discovery in the same boot.
C28_GovernorOrder ==
    /\ [](disc = "failing" => GovernorWaiting)
    /\ [](disc = "failed" => GovernorHalted)
    /\ [][GovernorStep]_vars

\* C28 witness: after a first failure stored 1 and restarted, the handler of
\* the second failure has emitted its pattern and not yet read the counter
C28_Witness ==
    /\ disc = "failing"
    /\ led = LedTimes(4)
    /\ nvs = 1
    /\ restarts = 1
    /\ glast.act = "blink"
    /\ glast.before = 1

\* the step of the handler that writes the counter, and the step of main
\* that does
GovernorWrites == disc = "failing" /\ bpc # "reset"
MainWrites == bpc = "reset" /\ disc = "found"

\* C26 as first stated: the persisted counter is written only by the
\* discovery-failure handler on the radio callback context.
C26_Original == [][nvs' # nvs => disc = "failing"]_vars

\* C26 amended: the persisted counter is written by the discovery-failure
\* handler on the radio callback context and by main's reset on the main
\* thread, and by nothing else; the two are never about to write at the same
\* time, because main reaches its reset only after a successful discovery
\* and the handler runs only after a failed one.
C26_TwoWritersNeverConcurrent ==
    /\ [][nvs' # nvs => (GovernorWrites \/ MainWrites)]_vars
    /\ [](~(bpc = "reset" /\ disc \in {"pending", "failing"}))
    /\ [](breset => disc \in {"found", "none"})

\* C26 witness: the handler stored 1 and restarted, and in the next boot
\* main has just reset the counter to 0
C26_Witness ==
    /\ breset
    /\ nvs = 0
    /\ bpc = "wifi"
    /\ disc = "found"
    /\ restarts = 0
    /\ fails = 0
    /\ glast.act = "restart"
    /\ glast.after = 1

----------------------------------------------------------------------------
(* Claims about the indicator, checked under SpecLed *)

\* C27: every send on the indicator's channel, from main, from the
\* discovery-failure handler and from the /post handler, eventually returns,
\* also when the indicator was given an error pattern before.
C27_SendsComplete ==
    \A c \in Contexts : (lsend[c] # LedNone) ~> (lsend[c] = LedNone)

\* the /post handler is inside send(Low) while High fills the channel and the
\* thread repeats an error pattern
C27_BlockedAfterError ==
    /\ lsend["httpd"] = LedLow
    /\ ledq = <<LedHigh>>
    /\ apc = "forever"

\* the fatal pattern of the discovery-failure handler was taken by the thread
\* and no send is blocked
C27_FatalShown ==
    /\ disc = "failed"
    /\ apc = "forever"
    /\ led = LedError(4)
    /\ ledq = << >>
    /\ lsend = NoSend

\* the channel never buffers more than one command
C27_OneSlot == Len(ledq) <= LED_QUEUE_SIZE

----------------------------------------------------------------------------
(* C32: a failed transmit, in flush and in the dispatcher events *)

\* the transmit the last step attempted failed
TxFailed == olast.txs # NoTx /\ ~olast.txs[1].ok

\* C32: when the transmit attempted by the flush inside write fails, write
\* returns a connection-reset error and the outbound queue is left empty,
\* whatever earlier calls had queued; when the transmit attempted by an Open,
\* write-acknowledgment or congestion event fails, the bytes it tried to send
\* all stay in the queue.
C32_FailedTransmit ==
    /\ (olast.act = "flush_tx" /\ TxFailed)
          => /\ write_buf = << >>
             /\ wret = RetErr("ConnectionReset")
             /\ wpc = "idle"
    /\ (olast.act \in {"open_flush", "ack", "cong"} /\ TxFailed)
          => /\ write_buf = olast.txs[1].data
             /\ write_buf # << >>
             /\ olast.act \in {"open_flush", "cong"} => write_buf = olast.pre

\* a write whose flush failed while bytes of an earlier, successful write
\* were still queued behind the link
C32_Witness ==
    /\ olast.act = "flush_tx"
    /\ TxFailed
    /\ wop = "write"
    /\ Len(olast.pre) > Len(warg)
    /\ Len(warg) > 0
    /\ write_buf = << >>

\* a write-acknowledgment event whose transmit failed keeps the queue
C32_DispatcherFailure ==
    /\ olast.act = "ack"
    /\ TxFailed
    /\ write_buf # << >>

----------------------------------------------------------------------------
(* C31: one reply, fragmented, against one read_response (SpecReply) *)

\* at most READ_BUF_SIZE bytes, the last one the only prompt byte
IsReply(st) ==
    /\ Len(st) \in 1..READ_BUF_SIZE
    /\ st[Len(st)] = PROMPT
    /\ \A i \in 1..(Len(st) - 1) : st[i] # PROMPT

\* the one call of the run was a read_response and it has returned
ReplyRead == Returned /\ nin = 1 /\ chunks # << >>

\* C31: for every reply of at most 500 bytes whose only prompt byte is its
\* last byte, read_response returns the complete filtered reply and leaves
\* the inbound queue empty, however the reply is fragmented across
\* data-arrival events and chunk reads: nothing of the reply is left for a
\* later read_response.
C31_CompleteReply ==
    (IsReply(stream) /\ ReplyRead) =>
        /\ eret.kind = "ok"
        /\ eret.text = Strip(stream)
        /\ consumed = stream
        /\ rdata = << >>

\* the same for replies shorter than the loop limit
C31_ShortReplyComplete ==
    (IsReply(stream) /\ ReplyRead /\ Len(stream) < LOOP_LIMIT) =>
        /\ eret.kind = "ok"
        /\ eret.text = Strip(stream)
        /\ consumed = stream
        /\ rdata = << >>

\* a reply was cut at the loop limit: read_response returned without its
\* end, which is still to be read
C31_ReplyCut ==
    /\ IsReply(stream)
    /\ ReplyRead
    /\ eret.cause = "limit"
    /\ consumed # stream

----------------------------------------------------------------------------
(* C33: transmits while the link is closed (SpecOut) *)

\* a Close was processed after the last successful Open: the handle is zero
\* and dh still holds what that Open stored
Closed == handle = 0 /\ dh # 0

\* the step hands bytes to spp.write: the transmit of flush, or the one of a
\* write-acknowledgment or congestion event
IssuesTransmit ==
    \/ (wpc = "tx" /\ wpc' = "idle")
    \/ /\ nevents' = nevents + 1
       /\ olast'.act \in {"ack", "cong"}
       /\ olast'.txs # NoTx

\* C33: between the processing of a Close event and the next successful Open
\* event no transmit is issued to the link by any execution context, neither
\* by a flush that read the handle before the Close nor by a
\* write-acknowledgment or congestion event that carries the closed handle.
C33_NoTransmitWhileClosed == [][Closed => ~IssuesTransmit]_vars

\* the flush part alone: flush never transmits while the link is closed
C33_NoStaleFlush == [][Closed => ~(wpc = "tx" /\ wpc' = "idle")]_vars

\* flush loaded the handle, the Close was processed, and flush transmitted
\* on the handle it had loaded
C33_StaleFlush ==
    /\ olast.act = "flush_tx"
    /\ Closed
    /\ olast.txs[1].h = dh
    /\ wh = dh

\* a flush that loads the handle after the Close does not transmit
C33_FlushAfterClose == (olast.act = "flush_skip" /\ Closed) => wpc = "idle" /\ wh = 0

----------------------------------------------------------------------------
(* C34: the request/response cycles of requests handled at the same time    *)
(* (SpecServe)                                                              *)

\* the engine is inside write_request or read_response
EngineBusy == wpc # "idle" \/ rpc # "idle" \/ epc # "idle"

C34_Contended ==
    \E h1, h2 \in Handlers :
        /\ hpc[h1] = "lock"
        /\ InCycle(h2)
        /\ hpc[h2] = "reading"

=============================================================================
